---- MODULE Spec2Model ----
(***************************************************************************)
(* A model of pbrt's closed-set polymorphic handle (TaggedPointer,         *)
(* src/pbrt/util/taggedptr.h), of the Integrator base class and the        *)
(* random-walk estimator (src/pbrt/cpu/integrators.h), of the interaction  *)
(* records (interaction.h), and of the Film and Sampler interfaces         *)
(* (src/pbrt/base/film.h, src/pbrt/base/sampler.h), and of the cameras     *)
(* (src/pbrt/cameras.h).                                                   *)
(*                                                                         *)
(* A uint64_t is modelled as the set of its set bit positions (a subset of *)
(* 0..63), so that the 64-bit encoding keeps its full width: bitwise and   *)
(* is intersection, bitwise or is union, a shift moves the positions and   *)
(* drops those that leave the word.                                        *)
(***************************************************************************)
EXTENDS Integers, Sequences, FiniteSets, TLC

VARIABLES
    debugBuild,     \* TRUE: DCHECK is compiled in; FALSE: DCHECK expands to nothing
    nTypes,         \* sizeof...(Ts) of the handle class under consideration
    h,              \* the handle variables of the program: slot -> [bits, origin]
    res,            \* the outcome of the last operation applied to a handle
    pc,             \* "run"; "used" once an operation was applied; "aborted"
                    \* once a fatal check has failed
    supplied,       \* Integrator: the constructor's parameter `lights`
    aggregate,      \* Integrator::aggregate ("none" stands for a null Primitive)
    lights,         \* Integrator::lights
    infiniteLights, \* Integrator::infiniteLights
    sceneBounds,    \* the constructor's local sceneBounds
    idx,            \* position of the constructor's range-for loop (1-based)
    ipc,            \* the Integrator's position in its life cycle
    log,            \* calls made on the lights and on the integrator, in order
    query,          \* Unoccluded: the blockers along the ray and the calls made
    intr,           \* one Interaction / SurfaceInteraction object and its use
    walk,           \* RandomWalkIntegrator: one evaluation of Li
    film,           \* the Film's pixels and the workers adding to them
    render,         \* ImageTileIntegrator::Render: the workers and their samplers
    cam             \* one camera object and the calls made on it

hvars == <<debugBuild, nTypes, h, res, pc>>
ivars == <<supplied, aggregate, lights, infiniteLights, sceneBounds, idx, ipc, log>>
xvars == <<query, intr, walk, film, render, cam>>
vars == <<debugBuild, nTypes, h, res, pc,
          supplied, aggregate, lights, infiniteLights, sceneBounds, idx, ipc, log,
          query, intr, walk, film, render, cam>>

\* what the variable of a part of the program holds while that part is not run
Idle == [at |-> "idle"]

----------------------------------------------------------------------------
(* 64-bit words as sets of bit positions *)

Word == 0..63

RECURSIVE Pow2(_)
Pow2(k) == IF k = 0 THEN 1 ELSE 2 * Pow2(k - 1)

RECURSIVE BitsFrom(_, _)
BitsFrom(v, i) ==
    IF v = 0 THEN {}
    ELSE (IF v % 2 = 1 THEN {i} ELSE {}) \cup BitsFrom(v \div 2, i + 1)

\* the bits of a non-negative number (an unsigned int holding a tag)
BitsOf(v) == BitsFrom(v, 0)

RECURSIVE ValueOf(_)
\* the number a set of low bit positions stands for
ValueOf(S) == IF S = {} THEN 0
              ELSE LET i == CHOOSE x \in S : TRUE IN Pow2(i) + ValueOf(S \ {i})

ShiftLeft(S, k) == {i + k : i \in {j \in S : j + k <= 63}}
ShiftRight(S, k) == {i - k : i \in {j \in S : j >= k}}
BitAnd(a, b) == a \cap b
BitOr(a, b) == a \cup b
BitNot(a) == Word \ a

SetMax(S) == CHOOSE x \in S : \A y \in S : y <= x

\* a < b on uint64_t: at the highest bit where they differ, b has the 1
ULess(a, b) == a # b /\ SetMax((a \ b) \cup (b \ a)) \in b

----------------------------------------------------------------------------
(* TaggedPointer private members *)

tagShift == 57
tagBits == 64 - tagShift
tagMask == ShiftLeft(BitsOf(Pow2(tagBits) - 1), tagShift)
ptrMask == BitNot(tagMask)

\* sizes of type packs: Film has 3 types, Camera 4, Filter 5, Shape 6, Light
\* and Sampler 9, BxDF 10; 1 and 2 exercise the two smallest overloads of
\* detail::Dispatch, which the packs of 9 and 10 types chain to
TypeSetSizes == {1, 2, 3, 4, 5, 6, 9, 10}

\* the types of the pack, by their position IndexOf<T, Types>::count
Types == 0..(nTypes - 1)

\* pointer values handed to the constructor
\* null; a low address; an address using the highest bit of the address
\* field; an address reaching into the tag field
NullAddr == {}
LowAddr == {3}
TopAddr == {3, 56}
HighAddr == {3, 57}
Addrs == {NullAddr, LowAddr, TopAddr, HighAddr}

Fits(p) == BitAnd(p, ptrMask) = p

Slots == {"a", "b"}

\* DCHECK(cond): a fatal check in debug builds, nothing in other builds
DCHECK(cond) == debugBuild => cond

----------------------------------------------------------------------------
(* TaggedPointer public methods, as operators on the encoded value `bits` *)

\* std::nullptr_t, which is no type of the pack
NullptrT == -1

\* faulty variant: the index without the 1 that sets it apart from the empty tag
TypeIndexNoOffset(T) == IF T = NullptrT THEN 0 ELSE T

\* TypeIndex<T>(): 0 for std::nullptr_t, else 1 + the position in the pack
TypeIndex(T) == IF T = NullptrT THEN 0 ELSE 1 + T

\* Tag(): (bits & tagMask) >> tagShift
Tag(bits) == ValueOf(ShiftRight(BitAnd(bits, tagMask), tagShift))

\* Is<T>()
Is(bits, T) == Tag(bits) = TypeIndex(T)

MaxTag == nTypes
NumTags == MaxTag + 1

\* faulty variant: the whole encoded value is tested
OpBoolWholeWord(bits) == bits # {}

\* explicit operator bool()
OpBool(bits) == BitAnd(bits, ptrMask) # {}

\* faulty variant: the order of the addresses alone
OpLessByAddress(a, b) == ULess(BitAnd(a, ptrMask), BitAnd(b, ptrMask))

\* operator<, operator==, operator!=
OpLess(a, b) == ULess(a, b)
OpEq(a, b) == a = b
OpNe(a, b) == a # b

\* faulty variant: the encoded value, tag included
ptrUnmasked(bits) == bits

\* ptr(): bits & ptrMask
ptr(bits) == BitAnd(bits, ptrMask)

\* faulty variant: the type index is not shifted to the tag field
EncodeNoShift(T, iptr) == BitOr(iptr, BitsOf(TypeIndex(T)))

\* the encoding TaggedPointer(T *ptr) stores: iptr | ((uint64_t)type << tagShift)
Encode(T, iptr) == BitOr(iptr, ShiftLeft(BitsOf(TypeIndex(T)), tagShift))

\* faulty variant: no check of the address
ConstructCheckNone(iptr) == TRUE

\* the check of TaggedPointer(T *ptr): DCHECK_EQ(iptr & ptrMask, iptr)
ConstructCheck(iptr) == DCHECK(BitAnd(iptr, ptrMask) = iptr)

Returned(v) == [fatal |-> FALSE, value |-> v]
FatalCheck == [fatal |-> TRUE, value |-> {}]

\* Cast<T>(): DCHECK(Is<T>()); return reinterpret_cast<T *>(ptr())
Cast(bits, T) == IF DCHECK(Is(bits, T)) THEN Returned(ptr(bits)) ELSE FatalCheck

\* faulty variant: the tag is not looked at
CastOrNullptrUnchecked(bits, T) == Returned(ptr(bits))

\* CastOrNullptr<T>()
CastOrNullptr(bits, T) == IF Is(bits, T) THEN Returned(ptr(bits)) ELSE Returned(NullAddr)

----------------------------------------------------------------------------
(* detail::Dispatch and detail::DispatchCPU: the switch over the index.     *)
(* The result is the list of invocations of func, each with the position of *)
(* the type the pointer was cast to and the pointer.                        *)

Invoked(T, p) == [fatal |-> FALSE, calls |-> <<[type |-> T, ptr |-> p]>>]
FatalDispatch == [fatal |-> TRUE, calls |-> <<>>]

\* the callee's type position is relative to the remaining pack Ts...
Shifted(r, k) ==
    IF r.fatal THEN r ELSE Invoked(r.calls[1].type + k, r.calls[1].ptr)

RECURSIVE DetailDispatch(_, _, _)
DetailDispatch(n, p, index) ==
    IF n = 1 THEN
        IF DCHECK(index = 0) THEN Invoked(0, p) ELSE FatalDispatch
    ELSE IF n <= 8 THEN
        IF DCHECK(index >= 0) /\ DCHECK(index < n) THEN
            IF index \in 0..(n - 2) THEN Invoked(index, p) ELSE Invoked(n - 1, p)
        ELSE FatalDispatch
    ELSE
        IF DCHECK(index >= 0) THEN
            IF index \in 0..7 THEN Invoked(index, p)
            ELSE Shifted(DetailDispatch(n - 8, p, index - 8), 8)
        ELSE FatalDispatch

RECURSIVE DetailDispatchCPU(_, _, _)
DetailDispatchCPU(n, p, index) ==
    IF n = 1 THEN
        IF DCHECK(index = 0) THEN Invoked(0, p) ELSE FatalDispatch
    ELSE IF n <= 8 THEN
        IF DCHECK(index >= 0) /\ DCHECK(index < n) THEN
            IF index \in 0..(n - 2) THEN Invoked(index, p) ELSE Invoked(n - 1, p)
        ELSE FatalDispatch
    ELSE
        IF DCHECK(index >= 0) THEN
            IF index \in 0..7 THEN Invoked(index, p)
            ELSE Shifted(DetailDispatchCPU(n - 8, p, index - 8), 8)
        ELSE FatalDispatch

\* faulty variant: the tag itself is passed as the index
IndexArgNoDecrement(tag) == tag

\* Tag() - 1 is computed in unsigned int and passed as int: for Tag() = 0 it
\* wraps to 0xFFFFFFFF, which is -1 as an int
IndexArg(tag) == IF tag = 0 THEN -1 ELSE tag - 1

\* TaggedPointer::Dispatch: DCHECK(ptr()); detail::Dispatch(func, ptr(), Tag() - 1)
Dispatch(bits) ==
    IF DCHECK(ptr(bits) # NullAddr)
    THEN DetailDispatch(nTypes, ptr(bits), IndexArg(Tag(bits)))
    ELSE FatalDispatch

\* faulty variant: the tag is passed as the index
DispatchCPUTagAsIndex(bits) ==
    IF DCHECK(ptr(bits) # NullAddr)
    THEN DetailDispatchCPU(nTypes, ptr(bits), Tag(bits))
    ELSE FatalDispatch

\* faulty variant: a null handle makes DispatchCPU return without a call
DispatchCPUSkipsNull(bits) ==
    IF ptr(bits) = NullAddr
    THEN [fatal |-> FALSE, calls |-> <<>>]
    ELSE DetailDispatchCPU(nTypes, ptr(bits), IndexArg(Tag(bits)))

\* TaggedPointer::DispatchCPU
DispatchCPU(bits) ==
    IF DCHECK(ptr(bits) # NullAddr)
    THEN DetailDispatchCPU(nTypes, ptr(bits), IndexArg(Tag(bits)))
    ELSE FatalDispatch

----------------------------------------------------------------------------
(* The handle program: two handle variables are built and copied, then one *)
(* operation is applied and its outcome recorded. The operations change no *)
(* handle, so a program that goes on after one reaches no other handle.    *)

DefaultOrigin == [kind |-> "default", T |-> -1, p |-> NullAddr]
NullptrOrigin == [kind |-> "nullptr", T |-> -1, p |-> NullAddr]
PtrOrigin(T, p) == [kind |-> "ptr", T |-> T, p |-> p]

NoRes == [op |-> "none", slot |-> "a", other |-> "a", T |-> -1, fatal |-> FALSE,
          value |-> {}, calls |-> <<>>, eq |-> FALSE, ne |-> FALSE, lt |-> FALSE]

HandleInit ==
    /\ debugBuild \in BOOLEAN
    /\ nTypes \in TypeSetSizes
    /\ h = [s \in Slots |-> [bits |-> {}, origin |-> DefaultOrigin]]
    /\ res = NoRes
    /\ pc = "run"
    \* no integrator is built
    /\ supplied = <<>>
    /\ aggregate = [present |-> FALSE, bounds |-> "empty"]
    /\ lights = <<>>
    /\ infiniteLights = <<>>
    /\ sceneBounds = "unset"
    /\ idx = 0
    /\ ipc = "start"
    /\ log = <<>>
    /\ query = Idle
    /\ intr = Idle
    /\ walk = Idle
    /\ film = Idle
    /\ render = Idle
    /\ cam = Idle

\* TaggedPointer() = default, with the member initializer bits = 0
DefaultConstruct(s) ==
    /\ pc = "run"
    /\ h' = [h EXCEPT ![s] = [bits |-> {}, origin |-> DefaultOrigin]]
    /\ res' = NoRes
    /\ UNCHANGED <<debugBuild, nTypes, pc>>
    /\ UNCHANGED ivars
    /\ UNCHANGED xvars

\* TaggedPointer(std::nullptr_t np) {}: bits keeps its initializer 0
NullptrConstruct(s) ==
    /\ pc = "run"
    /\ h' = [h EXCEPT ![s] = [bits |-> {}, origin |-> NullptrOrigin]]
    /\ res' = NoRes
    /\ UNCHANGED <<debugBuild, nTypes, pc>>
    /\ UNCHANGED ivars
    /\ UNCHANGED xvars

\* TaggedPointer(T *ptr)
PtrConstruct(s, T, p) ==
    /\ pc = "run"
    /\ IF ConstructCheck(p)
       THEN /\ h' = [h EXCEPT ![s] = [bits |-> Encode(T, p), origin |-> PtrOrigin(T, p)]]
            /\ res' = NoRes
            /\ pc' = pc
       ELSE /\ res' = [NoRes EXCEPT !.op = "TaggedPointer", !.slot = s, !.T = T,
                                    !.fatal = TRUE, !.value = p]
            /\ pc' = "aborted"
            /\ h' = h
    /\ UNCHANGED <<debugBuild, nTypes>>
    /\ UNCHANGED ivars
    /\ UNCHANGED xvars

\* TaggedPointer(const TaggedPointer &t) { bits = t.bits; }
CopyConstruct(s, t) ==
    /\ pc = "run"
    /\ s # t
    /\ h' = [h EXCEPT ![s] = h[t]]
    /\ res' = NoRes
    /\ UNCHANGED <<debugBuild, nTypes, pc>>
    /\ UNCHANGED ivars
    /\ UNCHANGED xvars

\* operator=(const TaggedPointer &t) { bits = t.bits; return *this; }
Assign(s, t) ==
    /\ pc = "run"
    /\ h' = [h EXCEPT ![s] = h[t]]
    /\ res' = NoRes
    /\ UNCHANGED <<debugBuild, nTypes, pc>>
    /\ UNCHANGED ivars
    /\ UNCHANGED xvars

Outcome(op, s, T, r) ==
    [NoRes EXCEPT !.op = op, !.slot = s, !.T = T, !.fatal = r.fatal, !.value = r.value]

DoCast(s, T) ==
    /\ pc = "run"
    /\ res' = Outcome("Cast", s, T, Cast(h[s].bits, T))
    /\ pc' = IF res'.fatal THEN "aborted" ELSE "used"
    /\ UNCHANGED <<debugBuild, nTypes, h>>
    /\ UNCHANGED ivars
    /\ UNCHANGED xvars

DoCastOrNullptr(s, T) ==
    /\ pc = "run"
    /\ res' = Outcome("CastOrNullptr", s, T, CastOrNullptr(h[s].bits, T))
    /\ pc' = IF res'.fatal THEN "aborted" ELSE "used"
    /\ UNCHANGED <<debugBuild, nTypes, h>>
    /\ UNCHANGED ivars
    /\ UNCHANGED xvars

Routed(op, s, r) ==
    [NoRes EXCEPT !.op = op, !.slot = s, !.fatal = r.fatal, !.calls = r.calls]

DoDispatch(s) ==
    /\ pc = "run"
    /\ res' = Routed("Dispatch", s, Dispatch(h[s].bits))
    /\ pc' = IF res'.fatal THEN "aborted" ELSE "used"
    /\ UNCHANGED <<debugBuild, nTypes, h>>
    /\ UNCHANGED ivars
    /\ UNCHANGED xvars

DoDispatchCPU(s) ==
    /\ pc = "run"
    /\ res' = Routed("DispatchCPU", s, DispatchCPU(h[s].bits))
    /\ pc' = IF res'.fatal THEN "aborted" ELSE "used"
    /\ UNCHANGED <<debugBuild, nTypes, h>>
    /\ UNCHANGED ivars
    /\ UNCHANGED xvars

\* a == b, a != b and a < b, evaluated on two handle variables
DoCompare(s, t) ==
    /\ pc = "run"
    /\ res' = [NoRes EXCEPT !.op = "compare", !.slot = s, !.other = t,
                            !.eq = OpEq(h[s].bits, h[t].bits),
                            !.ne = OpNe(h[s].bits, h[t].bits),
                            !.lt = OpLess(h[s].bits, h[t].bits)]
    /\ pc' = "used"
    /\ UNCHANGED <<debugBuild, nTypes, h>>
    /\ UNCHANGED ivars
    /\ UNCHANGED xvars

HandleNext ==
    \/ \E s \in Slots : DefaultConstruct(s)
    \/ \E s \in Slots : NullptrConstruct(s)
    \/ \E s \in Slots, T \in Types, p \in Addrs : PtrConstruct(s, T, p)
    \/ \E s \in Slots, t \in Slots : CopyConstruct(s, t)
    \/ \E s \in Slots, t \in Slots : Assign(s, t)
    \/ \E s \in Slots, T \in Types : DoCast(s, T)
    \/ \E s \in Slots, T \in Types : DoCastOrNullptr(s, T)
    \/ \E s \in Slots : DoDispatch(s)
    \/ \E s \in Slots : DoDispatchCPU(s)
    \/ \E s \in Slots, t \in Slots : DoCompare(s, t)

----------------------------------------------------------------------------
(* Integrator: the constructor, then Render and the scene queries *)

MaxLights == 3
MaxCalls == 2

\* enum class LightType
LightType == {"DeltaPosition", "DeltaDirection", "Area", "Infinite"}

\* what a Primitive's Bounds() can report; Bounds3f() is the empty box
BoundsValues == {"empty", "unit", "big"}
DefaultBounds == "empty"

\* the lights handed to the constructor: distinct lights, named by their
\* position in the list, each with the kind its Type() reports
LightLists ==
    UNION {[1..k -> LightType] : k \in 0..MaxLights}
MakeLights(kinds) == [i \in DOMAIN kinds |-> [id |-> i, type |-> kinds[i]]]

Aggregates ==
    {[present |-> FALSE, bounds |-> DefaultBounds]}
        \cup {[present |-> TRUE, bounds |-> b] : b \in BoundsValues}

\* faulty variant: the aggregate is never asked for its bounds
SceneBoundsIgnoresAggregate(agg) == DefaultBounds

\* Bounds3f sceneBounds = aggregate ? aggregate.Bounds() : Bounds3f();
SceneBoundsOf(agg) == IF agg.present THEN agg.bounds ELSE DefaultBounds

\* faulty variant: area lights are taken for infinite lights too
IsInfiniteOrArea(light) == light.type \in {"Infinite", "Area"}

\* light.Type() == LightType::Infinite
IsInfinite(light) == light.type = "Infinite"

Event(ev, light, b) == [ev |-> ev, light |-> light, bounds |-> b]

IntegratorInit ==
    /\ supplied \in {MakeLights(kinds) : kinds \in LightLists}
    /\ aggregate \in Aggregates
    /\ lights = <<>>
    /\ infiniteLights = <<>>
    /\ sceneBounds = "unset"
    /\ idx = 0
    /\ ipc = "start"
    /\ log = <<>>
    \* no handle program runs
    /\ debugBuild = FALSE
    /\ nTypes = 1
    /\ h = [s \in Slots |-> [bits |-> {}, origin |-> DefaultOrigin]]
    /\ res = NoRes
    /\ pc = "run"
    /\ query = Idle
    /\ intr = Idle
    /\ walk = Idle
    /\ film = Idle
    /\ render = Idle
    /\ cam = Idle

\* the member initializers aggregate(aggregate), lights(lights) and the
\* computation of sceneBounds
CtorBegin ==
    /\ ipc = "start"
    /\ lights' = supplied
    /\ sceneBounds' = SceneBoundsOf(aggregate)
    /\ idx' = 1
    /\ ipc' = "loop"
    /\ UNCHANGED <<supplied, aggregate, infiniteLights, log>>
    /\ UNCHANGED hvars
    /\ UNCHANGED xvars

\* loop body, first statement: light.Preprocess(sceneBounds)
CtorPreprocess ==
    /\ ipc = "loop"
    /\ idx <= Len(supplied)
    /\ log' = Append(log, Event("Preprocess", supplied[idx].id, sceneBounds))
    /\ ipc' = "classify"
    /\ UNCHANGED <<supplied, aggregate, lights, infiniteLights, sceneBounds, idx>>
    /\ UNCHANGED hvars
    /\ UNCHANGED xvars

\* loop body, second statement: if (light.Type() == LightType::Infinite)
\*                                  infiniteLights.push_back(light)
CtorClassify ==
    /\ ipc = "classify"
    /\ infiniteLights' = IF IsInfinite(supplied[idx])
                         THEN Append(infiniteLights, supplied[idx])
                         ELSE infiniteLights
    /\ log' = Append(log, Event("Type", supplied[idx].id, "unset"))
    /\ idx' = idx + 1
    /\ ipc' = "loop"
    /\ UNCHANGED <<supplied, aggregate, lights, sceneBounds>>
    /\ UNCHANGED hvars
    /\ UNCHANGED xvars

\* the loop is over: the constructor returns
CtorEnd ==
    /\ ipc = "loop"
    /\ idx > Len(supplied)
    /\ ipc' = "constructed"
    /\ UNCHANGED <<supplied, aggregate, lights, infiniteLights, sceneBounds, idx, log>>
    /\ UNCHANGED hvars
    /\ UNCHANGED xvars

Calls(ev) == Cardinality({k \in DOMAIN log : log[k].ev = ev})

\* Render(), callable on a constructed integrator
Render ==
    /\ ipc = "constructed"
    /\ Calls("Render") < MaxCalls
    /\ log' = Append(log, Event("Render", 0, "unset"))
    /\ UNCHANGED <<supplied, aggregate, lights, infiniteLights, sceneBounds, idx, ipc>>
    /\ UNCHANGED hvars
    /\ UNCHANGED xvars

\* the scene queries Intersect / IntersectP, callable on a constructed integrator
SceneQuery ==
    /\ ipc = "constructed"
    /\ Calls("Query") < MaxCalls
    /\ log' = Append(log, Event("Query", 0, "unset"))
    /\ UNCHANGED <<supplied, aggregate, lights, infiniteLights, sceneBounds, idx, ipc>>
    /\ UNCHANGED hvars
    /\ UNCHANGED xvars

IntegratorNext ==
    \/ CtorBegin
    \/ CtorPreprocess
    \/ CtorClassify
    \/ CtorEnd
    \/ Render
    \/ SceneQuery

----------------------------------------------------------------------------
(* Scene Query Facade: Intersect, IntersectP and Unoccluded.                *)
(* The ray spawned from p0 toward p1 has p0 at parameter 0 and p1 at        *)
(* parameter 1. Ray parameters are counted in steps of a grid on which 1 is *)
(* UnitT steps; the scene along the ray is the set of parameters at which   *)
(* the ray meets a blocker.                                                 *)

UnitT == 6
MaxBlockers == 2

\* ShadowEpsilon, the inset from the far endpoint, in grid steps
ShadowEpsilon == 2

\* parameters at which a blocker can lie: before the inset endpoint, at it,
\* between it and p1, at p1 and beyond p1
Params == 1..(UnitT + 2)
\* Float tMax = Infinity
Infinity == UnitT + 3

Scenes == {b \in SUBSET Params : Cardinality(b) <= MaxBlockers}

SetMin(S) == CHOOSE x \in S : \A y \in S : x <= y

\* Integrator::Intersect(ray, tMax): the nearest hit within [0, tMax), if any
Intersect(blockers, tMax) ==
    LET hits == {t \in blockers : t < tMax}
    IN  IF hits = {} THEN [hit |-> FALSE, t |-> 0]
        ELSE [hit |-> TRUE, t |-> SetMin(hits)]

\* Integrator::IntersectP(ray, tMax): is there a hit within [0, tMax)
IntersectP(blockers, tMax) == \E t \in blockers : t < tMax

Queried(fn, tMax) == [fn |-> fn, tMax |-> tMax]

\* faulty variant: the shadow ray is tested up to p1 itself
UnoccludedToEndpoint(blockers) ==
    [result |-> ~IntersectP(blockers, UnitT),
     calls |-> <<Queried("IntersectP", UnitT)>>]

\* Integrator::Unoccluded(p0, p1):
\*     return !IntersectP(p0.SpawnRayTo(p1), 1 - ShadowEpsilon);
\* the result and the queries made on the way
Unoccluded(blockers) ==
    [result |-> ~IntersectP(blockers, UnitT - ShadowEpsilon),
     calls |-> <<Queried("IntersectP", UnitT - ShadowEpsilon)>>]

NoAnswer == [fn |-> "none", tMax |-> 0, hit |-> FALSE, t |-> 0, result |-> FALSE]

QueryInit ==
    /\ query = [at |-> "ready", blockers |-> {}, calls |-> <<>>, answer |-> NoAnswer]
    /\ debugBuild = FALSE
    /\ nTypes = 1
    /\ h = [s \in Slots |-> [bits |-> {}, origin |-> DefaultOrigin]]
    /\ res = NoRes
    /\ pc = "run"
    /\ supplied = <<>>
    /\ aggregate = [present |-> TRUE, bounds |-> "unit"]
    /\ lights = <<>>
    /\ infiniteLights = <<>>
    /\ sceneBounds = "unit"
    /\ idx = 1
    /\ ipc = "constructed"
    /\ log = <<>>
    /\ intr = Idle
    /\ walk = Idle
    /\ film = Idle
    /\ render = Idle
    /\ cam = Idle

QueryUnchanged ==
    UNCHANGED <<debugBuild, nTypes, h, res, pc, supplied, aggregate, lights,
                infiniteLights, sceneBounds, idx, ipc, log, intr, walk, film, render, cam>>

\* two interaction points are picked: the ray between them meets the
\* blockers of one of the scenes
PickPoints(b) ==
    /\ query.at = "ready"
    /\ query' = [query EXCEPT !.at = "picked", !.blockers = b]
    /\ QueryUnchanged

\* integrator.Unoccluded(p0, p1)
CallUnoccluded ==
    /\ query.at = "picked"
    /\ LET r == Unoccluded(query.blockers)
       IN  query' = [query EXCEPT
                        !.at = "answered",
                        !.calls = r.calls,
                        !.answer = [NoAnswer EXCEPT !.fn = "Unoccluded",
                                                    !.result = r.result]]
    /\ QueryUnchanged

\* integrator.IntersectP(ray, tMax) on the same ray
CallIntersectP(tMax) ==
    /\ query.at = "picked"
    /\ query' = [query EXCEPT
                    !.at = "answered",
                    !.calls = <<Queried("IntersectP", tMax)>>,
                    !.answer = [NoAnswer EXCEPT
                                   !.fn = "IntersectP", !.tMax = tMax,
                                   !.hit = IntersectP(query.blockers, tMax)]]
    /\ QueryUnchanged

\* integrator.Intersect(ray, tMax) on the same ray
CallIntersect(tMax) ==
    /\ query.at = "picked"
    /\ LET r == Intersect(query.blockers, tMax)
       IN  query' = [query EXCEPT
                        !.at = "answered",
                        !.calls = <<Queried("Intersect", tMax)>>,
                        !.answer = [NoAnswer EXCEPT
                                       !.fn = "Intersect", !.tMax = tMax,
                                       !.hit = r.hit, !.t = r.t]]
    /\ QueryUnchanged

QueryNext ==
    \/ \E b \in Scenes : PickPoints(b)
    \/ CallUnoccluded
    \/ \E tMax \in Params \cup {Infinity} : CallIntersectP(tMax)
    \/ \E tMax \in Params \cup {Infinity} : CallIntersect(tMax)

----------------------------------------------------------------------------
(* Interaction, MediumInteraction and SurfaceInteraction (interaction.h).   *)
(* Vectors and normals are triples of whole numbers, so that dot and cross  *)
(* products are exact; the vectors used lie along the axes.                 *)

Zero3 == <<0, 0, 0>>
Neg(v) == <<-v[1], -v[2], -v[3]>>
\* normals: the zero normal, two opposite unit normals and one perpendicular
\* to them
Normals == {Zero3, <<0, 0, 1>>, <<0, 0, -1>>, <<1, 0, 0>>}
\* tangent vectors dpdu, dpdv: of unit length and longer
Tangents == {<<1, 0, 0>>, <<0, 2, 0>>}
\* outgoing directions handed to the constructors: of unit length and longer
Outgoing == {<<0, 0, 1>>, <<0, -2, 0>>}
\* the one handed to the constructor of SurfaceInteraction
SurfaceOutgoing == {<<0, -2, 0>>}

Dot(a, b) == a[1] * b[1] + a[2] * b[2] + a[3] * b[3]
Cross(a, b) == <<a[2] * b[3] - a[3] * b[2],
                 a[3] * b[1] - a[1] * b[3],
                 a[1] * b[2] - a[2] * b[1]>>
LengthSquared(v) == Dot(v, v)
\* the length of a vector along an axis
Length(v) == CHOOSE r \in 0..LengthSquared(v) : r * r = LengthSquared(v)
\* Normalize(v) = v / Length(v), for a non-zero vector along an axis
Normalize(v) == <<v[1] \div Length(v), v[2] \div Length(v), v[3] \div Length(v)>>
\* FaceForward(n, v): n flipped into the hemisphere of v
FaceForward(n, v) == IF Dot(n, v) < 0 THEN Neg(n) ELSE n
Abs3(v) == <<IF v[1] < 0 THEN -v[1] ELSE v[1],
             IF v[2] < 0 THEN -v[2] ELSE v[2],
             IF v[3] < 0 THEN -v[3] ELSE v[3]>>
Minus(a, b) == <<a[1] - b[1], a[2] - b[2], a[3] - b[3]>>
Times(s, v) == <<s * v[1], s * v[2], s * v[3]>>

\* Coordinates of points are whole numbers of steps of the grid of
\* representable values, relative to the point of the interaction at hand;
\* NextFloatUp and NextFloatDown move to the neighbouring value.
NextFloatUp(x) == x + 1
NextFloatDown(x) == x - 1

\* Point3fi: a point p with the bounds err of its rounding error
\* (Point3fi::Error()); Point3fi(Point3f p) has no error
Point3fi(p, err) == [p |-> p, err |-> err]
\* error bounds of the points handed to the constructors: none, and one step
\* along the third axis; a point found on a surface has error bounds
PiErrors == {Zero3, <<0, 0, 1>>}
SurfacePiErrors == {<<0, 0, 1>>}

\* A shading tangent, a Vector3f that can be large: v scaled by the power e
\* of 10^8, or, when inf is set, infinite in the components that are not
\* zero in v. The components of v are far below 10^8.
Float3(v, e) == [v |-> v, e |-> e, inf |-> FALSE]
Infinite3(v) == [v |-> v, e |-> 0, inf |-> TRUE]
\* LengthSquared(x) > 1e16f
ExceedsLimit(x) ==
    /\ x.v # Zero3
    /\ \/ x.inf
       \/ x.e > 1
       \/ x.e = 1 /\ LengthSquared(x.v) > 1
\* x /= 1e8f; zero stays zero and an infinite component stays infinite
DivideBy1e8(x) == IF x.inf \/ x.v = Zero3 THEN x ELSE [x EXCEPT !.e = @ - 1]

\* CHECK(cond): a fatal check, compiled into every build
CHECK(cond) == cond

\* Medium handles: 0 is the null handle
NullMedium == 0
Media == 1..3
\* const MediumInterface *: the null pointer, or an object holding the
\* media inside and outside of a surface
NullInterface == [null |-> TRUE, inside |-> NullMedium, outside |-> NullMedium]
Interface(in, out) == [null |-> FALSE, inside |-> in, outside |-> out]
MediumInterfaces ==
    {Interface(1, 1), Interface(1, 2), Interface(NullMedium, NullMedium),
     Interface(NullMedium, 2)}
\* MediumInterface::IsMediumTransition()
IsMediumTransition(mi) == mi.inside # mi.outside
\* media a ray can be in when it hits
RayMedia == {NullMedium, 3}

\* Material and Light handles: 0 is the null handle; the surfaces hit have
\* a material, and some of them emit
Materials == {1}
AreaLights == 0..1

\* nothing was called on the object yet
NoCall == [op |-> "none", fatal |-> FALSE, value |-> FALSE,
           mtl |-> 0, area |-> 0, primMI |-> NullInterface, rayMedium |-> NullMedium,
           w |-> Zero3, medium |-> NullMedium,
           before |-> [mediumInterface |-> NullInterface, medium |-> NullMedium,
                       n |-> Zero3, shadingN |-> Zero3]]

\* an object as its constructor leaves it; a base Interaction carries no
\* SurfaceInteraction members, they are kept at their default values
Object(class, ctor, piError, n, wo, mi, medium) ==
    [at |-> "built", class |-> class, ctor |-> ctor, piError |-> piError,
     n |-> n, wo |-> wo, mediumInterface |-> mi, medium |-> medium,
     shadingN |-> Zero3,
     shadingDpdu |-> Float3(Zero3, 0), shadingDpdv |-> Float3(Zero3, 0),
     shadingDndu |-> Zero3, shadingDndv |-> Zero3,
     material |-> 0, areaLight |-> 0,
     sets |-> 0, answer |-> NoCall]

\* Interaction() = default, and SurfaceInteraction() = default,
\* MediumInteraction() : phase(nullptr)
Default(class) ==
    Object(class, "default", Zero3, Zero3, Zero3, NullInterface, NullMedium)

\* Interaction(Point3fi pi, Normal3f n, Point2f uv, Vector3f wo, Float time)
\*     : pi(pi), n(n), uv(uv), wo(Normalize(wo)), time(time)
SurfacePoint(class, piError, n, wo) ==
    Object(class, "pi,n,uv,wo,time", piError, n, Normalize(wo), NullInterface, NullMedium)

\* Interaction(Point3f p, Vector3f wo, Float time, Medium medium)
\*     : pi(p), time(time), wo(wo), medium(medium)
MediumPoint(class, wo, medium) ==
    Object(class, "p,wo,time,medium", Zero3, Zero3, wo, NullInterface, medium)

\* Interaction(Point3f p, Normal3f n, Float time, Medium medium)
NormalInMedium(n, medium) ==
    Object("Interaction", "p,n,time,medium", Zero3, n, Zero3, NullInterface, medium)

\* Interaction(Point3f p, Point2f uv)
PointOnly ==
    Object("Interaction", "p,uv", Zero3, Zero3, Zero3, NullInterface, NullMedium)

\* Interaction(const Point3fi &pi, Normal3f n, Float time = 0, Point2f uv = {})
\* Interaction(const Point3fi &pi, Normal3f n, Point2f uv)
PointAndNormal(piError, n) ==
    Object("Interaction", "pi,n", piError, n, Zero3, NullInterface, NullMedium)

\* Interaction(Point3f p, Float time, Medium medium)
PointInMedium(medium) ==
    Object("Interaction", "p,time,medium", Zero3, Zero3, Zero3, NullInterface, medium)

\* Interaction(Point3f p, const MediumInterface *mediumInterface)
\* Interaction(Point3f p, Float time, const MediumInterface *mediumInterface)
PointAtInterface(mi) ==
    Object("Interaction", "p,mediumInterface", Zero3, Zero3, Zero3, mi, NullMedium)

\* SurfaceInteraction(pi, uv, wo, dpdu, dpdv, dndu, dndv, time, flipNormal)
\*     : Interaction(pi, Normal3f(Normalize(Cross(dpdu, dpdv))), uv, wo, time)
\* then shading.n = n, shading.dpdu = dpdu, shading.dpdv = dpdv,
\* shading.dndu = dndu, shading.dndv = dndv, and n and shading.n are negated
\* if flipNormal
SurfaceInteraction(piError, wo, dpdu, dpdv, dndu, dndv, flipNormal) ==
    LET base == SurfacePoint("SurfaceInteraction", piError,
                             Normalize(Cross(dpdu, dpdv)), wo)
        o == [base EXCEPT !.shadingN = base.n,
                          !.shadingDpdu = Float3(dpdu, 0),
                          !.shadingDpdv = Float3(dpdv, 0),
                          !.shadingDndu = dndu,
                          !.shadingDndv = dndv,
                          !.ctor = "pi,uv,wo,dpdu,dpdv,..."]
    IN  IF flipNormal
        THEN [o EXCEPT !.n = Neg(o.n), !.shadingN = Neg(o.shadingN)]
        ELSE o

\* bool IsSurfaceInteraction() const { return n != Normal3f(0, 0, 0); }
IsSurfaceInteraction(o) == o.n # Zero3

\* faulty variant: the same test as IsSurfaceInteraction
IsMediumInteractionSameTest(o) == IsSurfaceInteraction(o)

\* bool IsMediumInteraction() const { return !IsSurfaceInteraction(); }
IsMediumInteraction(o) == ~IsSurfaceInteraction(o)

\* AsSurface(): CHECK(IsSurfaceInteraction()); TRUE when the check passes
\* and the reference is returned
AsSurface(o) == CHECK(IsSurfaceInteraction(o))

\* AsMedium(): CHECK(IsMediumInteraction())
AsMedium(o) == CHECK(IsMediumInteraction(o))

\* while (LengthSquared(shading.dpdu) > 1e16f ||
\*        LengthSquared(shading.dpdv) > 1e16f) {
\*     shading.dpdu /= 1e8f; shading.dpdv /= 1e8f; }
\* the loop has no end when a component is infinite
NeverInRange(dpdu, dpdv) ==
    \/ dpdu.inf /\ dpdu.v # Zero3
    \/ dpdv.inf /\ dpdv.v # Zero3
RECURSIVE ScaleIntoRange(_, _)
ScaleIntoRange(dpdu, dpdv) ==
    IF ExceedsLimit(dpdu) \/ ExceedsLimit(dpdv)
    THEN ScaleIntoRange(DivideBy1e8(dpdu), DivideBy1e8(dpdv))
    ELSE <<dpdu, dpdv>>

\* shading.dpdu = dpdus; shading.dpdv = dpdvs; shading.dndu = dndus;
\* shading.dndv = dndvs; and the loop that scales the tangents: the object
\* when the loop is left, or, when it is never left, the object on entry
InitializeShadingDerivatives(o, dpdus, dpdvs, dndus, dndvs) ==
    LET o1 == [o EXCEPT !.shadingDpdu = dpdus, !.shadingDpdv = dpdvs,
                        !.shadingDndu = dndus, !.shadingDndv = dndvs]
    IN  IF NeverInRange(dpdus, dpdvs)
        THEN [fatal |-> FALSE, hangs |-> TRUE, obj |-> o1]
        ELSE [fatal |-> FALSE, hangs |-> FALSE,
              obj |-> [o1 EXCEPT
                         !.shadingDpdu = ScaleIntoRange(dpdus, dpdvs)[1],
                         !.shadingDpdv = ScaleIntoRange(dpdus, dpdvs)[2]]]

\* faulty variant: the geometric normal is flipped whatever the flag says
SetShadingGeometryIgnoringFlag(o, ns, dpdus, dpdvs, dndus, dndvs, orientationIsAuthoritative) ==
    LET o1 == [o EXCEPT !.shadingN = ns]
    IN  IF ~DCHECK(o1.shadingN # Zero3)
        THEN [fatal |-> TRUE, hangs |-> FALSE, obj |-> o1]
        ELSE InitializeShadingDerivatives(
                 [o1 EXCEPT !.n = FaceForward(o1.n, o1.shadingN)],
                 dpdus, dpdvs, dndus, dndvs)

\* faulty variant: the shading normal is stored as given when the geometric
\* normal is authoritative
SetShadingGeometryUnoriented(o, ns, dpdus, dpdvs, dndus, dndvs, orientationIsAuthoritative) ==
    LET o1 == [o EXCEPT !.shadingN = ns]
    IN  IF ~DCHECK(o1.shadingN # Zero3)
        THEN [fatal |-> TRUE, hangs |-> FALSE, obj |-> o1]
        ELSE IF orientationIsAuthoritative
        THEN InitializeShadingDerivatives(
                 [o1 EXCEPT !.n = FaceForward(o1.n, o1.shadingN)],
                 dpdus, dpdvs, dndus, dndvs)
        ELSE InitializeShadingDerivatives(o1, dpdus, dpdvs, dndus, dndvs)

\* SetShadingGeometry(ns, dpdus, dpdvs, dndus, dndvs, orientationIsAuthoritative):
\*     shading.n = ns; DCHECK_NE(shading.n, Normal3f(0, 0, 0));
\*     if (orientationIsAuthoritative) n = FaceForward(n, shading.n);
\*     else shading.n = FaceForward(shading.n, n);
\* then the shading derivatives are stored and the tangents scaled. The
\* result tells whether the call stopped at DCHECK_NE (fatal), whether it
\* never leaves the loop (hangs), and the object
SetShadingGeometry(o, ns, dpdus, dpdvs, dndus, dndvs, orientationIsAuthoritative) ==
    LET o1 == [o EXCEPT !.shadingN = ns]
    IN  IF ~DCHECK(o1.shadingN # Zero3)
        THEN [fatal |-> TRUE, hangs |-> FALSE, obj |-> o1]
        ELSE IF orientationIsAuthoritative
        THEN InitializeShadingDerivatives(
                 [o1 EXCEPT !.n = FaceForward(o1.n, o1.shadingN)],
                 dpdus, dpdvs, dndus, dndvs)
        ELSE InitializeShadingDerivatives(
                 [o1 EXCEPT !.shadingN = FaceForward(o1.shadingN, o1.n)],
                 dpdus, dpdvs, dndus, dndvs)

\* faulty variant: the medium the ray was in is stored also beside a
\* medium transition
SetIntersectionPropertiesBoth(o, mtl, area, primMediumInterface, rayMedium) ==
    LET o1 == [o EXCEPT !.material = mtl, !.areaLight = area]
    IN  IF ~CHECK(Dot(o1.n, o1.shadingN) >= 0) THEN [fatal |-> TRUE, obj |-> o1]
        ELSE IF ~primMediumInterface.null /\ IsMediumTransition(primMediumInterface)
        THEN [fatal |-> FALSE,
              obj |-> [o1 EXCEPT !.mediumInterface = primMediumInterface,
                                 !.medium = rayMedium]]
        ELSE [fatal |-> FALSE, obj |-> [o1 EXCEPT !.medium = rayMedium]]

\* faulty variant: the check lets perpendicular normals fail too
SetIntersectionPropertiesStrict(o, mtl, area, primMediumInterface, rayMedium) ==
    LET o1 == [o EXCEPT !.material = mtl, !.areaLight = area]
    IN  IF ~CHECK(Dot(o1.n, o1.shadingN) > 0) THEN [fatal |-> TRUE, obj |-> o1]
        ELSE IF ~primMediumInterface.null /\ IsMediumTransition(primMediumInterface)
        THEN [fatal |-> FALSE, obj |-> [o1 EXCEPT !.mediumInterface = primMediumInterface]]
        ELSE [fatal |-> FALSE, obj |-> [o1 EXCEPT !.medium = rayMedium]]

\* SetIntersectionProperties(mtl, area, primMediumInterface, rayMedium):
\*     material = mtl; areaLight = area;
\*     CHECK_GE(Dot(n, shading.n), 0.);
\*     if (primMediumInterface && primMediumInterface->IsMediumTransition())
\*         mediumInterface = primMediumInterface;
\*     else
\*         medium = rayMedium;
SetIntersectionProperties(o, mtl, area, primMediumInterface, rayMedium) ==
    LET o1 == [o EXCEPT !.material = mtl, !.areaLight = area]
    IN  IF ~CHECK(Dot(o1.n, o1.shadingN) >= 0) THEN [fatal |-> TRUE, obj |-> o1]
        ELSE IF ~primMediumInterface.null /\ IsMediumTransition(primMediumInterface)
        THEN [fatal |-> FALSE, obj |-> [o1 EXCEPT !.mediumInterface = primMediumInterface]]
        ELSE [fatal |-> FALSE, obj |-> [o1 EXCEPT !.medium = rayMedium]]

\* faulty variant: a direction in the surface is taken to leave it
GetMediumOutsideInPlane(o, w) ==
    IF ~o.mediumInterface.null
    THEN IF Dot(w, o.n) >= 0 THEN o.mediumInterface.outside ELSE o.mediumInterface.inside
    ELSE o.medium

\* Medium GetMedium(Vector3f w) const:
\*     if (mediumInterface)
\*         return Dot(w, n) > 0 ? mediumInterface->outside : mediumInterface->inside;
\*     return medium;
GetMedium(o, w) ==
    IF ~o.mediumInterface.null
    THEN IF Dot(w, o.n) > 0 THEN o.mediumInterface.outside ELSE o.mediumInterface.inside
    ELSE o.medium

\* directions of spawned rays and points aimed at: along and against the
\* normals, in the surface, one step away and further
Directions == {<<0, 0, 1>>, <<0, 0, -2>>, <<0, 1, 0>>}

\* the interactions aimed at: only their pi and n are read; the second has
\* no error bounds, the others have them along their normal
Targets ==
    {[pi |-> Point3fi(<<0, 1, 0>>, <<0, 0, 2>>), n |-> <<0, 0, 1>>],
     [pi |-> Point3fi(<<0, 1, 0>>, Zero3), n |-> <<0, 0, 1>>],
     [pi |-> Point3fi(<<0, 0, -2>>, <<0, 0, 1>>), n |-> <<0, 0, -1>>]}

\* a ray: its origin, its direction and the medium it starts in
Ray(o, d, medium) == [o |-> o, d |-> d, medium |-> medium]

\* a coordinate moved by offset and then rounded away from where it was
RoundAway(x, offset) ==
    IF offset > 0 THEN NextFloatUp(x + offset)
    ELSE IF offset < 0 THEN NextFloatDown(x + offset)
    ELSE x

\* pbrt::OffsetRayOrigin(pi, n, w):
\*     Float d = Dot(Abs(n), pi.Error());
\*     Vector3f offset = d * Vector3f(n);
\*     if (Dot(w, n) < 0) offset = -offset;
\*     Point3f po = Point3f(pi) + offset;
\*     each po[i] is moved to the next value up if offset[i] > 0 and to the
\*     next value down if offset[i] < 0
OffsetRayOrigin(pi, n, w) ==
    LET d == Dot(Abs3(n), pi.err)
        offset == IF Dot(w, n) < 0 THEN Neg(Times(d, n)) ELSE Times(d, n)
    IN  <<RoundAway(pi.p[1], offset[1]),
          RoundAway(pi.p[2], offset[2]),
          RoundAway(pi.p[3], offset[3])>>

\* pbrt::SpawnRay(pi, n, time, d):
\*     return Ray(OffsetRayOrigin(pi, n, d), d, time);
SpawnRayFrom(pi, n, d) == Ray(OffsetRayOrigin(pi, n, d), d, NullMedium)

\* pbrt::SpawnRayTo(pFrom, n, time, pTo):
\*     Vector3f d = pTo - Point3f(pFrom);
\*     return SpawnRay(pFrom, n, time, d);
SpawnRayToPoint(pFrom, n, pTo) == SpawnRayFrom(pFrom, n, Minus(pTo, pFrom.p))

\* pbrt::SpawnRayTo(pFrom, nFrom, time, pTo, nTo):
\*     Point3f pf = OffsetRayOrigin(pFrom, nFrom, Point3f(pTo) - Point3f(pFrom));
\*     Point3f pt = OffsetRayOrigin(pTo, nTo, pf - Point3f(pTo));
\*     return Ray(pf, pt - pf, time);
SpawnRayToOffsetPoint(pFrom, nFrom, pTo, nTo) ==
    LET pf == OffsetRayOrigin(pFrom, nFrom, Minus(pTo.p, pFrom.p))
        pt == OffsetRayOrigin(pTo, nTo, Minus(pf, pTo.p))
    IN  Ray(pf, Minus(pt, pf), NullMedium)

\* the member pi of an object; its point is the origin of the coordinates
Pi(o) == Point3fi(Zero3, o.piError)

\* RayDifferential SpawnRay(Vector3f d) const:
\*     return RayDifferential(OffsetRayOrigin(d), d, time, GetMedium(d));
SpawnRay(o, d) == Ray(OffsetRayOrigin(Pi(o), o.n, d), d, GetMedium(o, d))

\* Ray SpawnRayTo(Point3f p2) const:
\*     Ray r = pbrt::SpawnRayTo(pi, n, time, p2); r.medium = GetMedium(r.d);
SpawnRayTo(o, p2) ==
    LET r == SpawnRayToPoint(Pi(o), o.n, p2)
    IN  [r EXCEPT !.medium = GetMedium(o, r.d)]

\* Ray SpawnRayTo(const Interaction &it) const:
\*     Ray r = pbrt::SpawnRayTo(pi, n, time, it.pi, it.n);
\*     r.medium = GetMedium(r.d);
SpawnRayToInteraction(o, it) ==
    LET r == SpawnRayToOffsetPoint(Pi(o), o.n, it.pi, it.n)
    IN  [r EXCEPT !.medium = GetMedium(o, r.d)]

\* pointers a caller can hold to a MediumInterface
InterfacePointers == MediumInterfaces \cup {NullInterface}

\* tangent vectors of a surface that is not degenerate
TangentPairs ==
    {pr \in Tangents \X Tangents : Cross(pr[1], pr[2]) # Zero3}

\* derivatives dndu, dndv of the normal that the constructor is given, of a
\* flat surface, and those that SetShadingGeometry is given
NormalDerivativePairs == {<<Zero3, Zero3>>}
ShadingNormalDerivativePairs == {<<<<1, 0, 0>>, <<0, 1, 0>>>>}

\* shading tangents dpdus, dpdvs handed to SetShadingGeometry: of unit
\* length, beyond the limit of the loop, and with an infinite component
ShadingTangentPairs ==
    {<<Float3(<<1, 0, 0>>, 0), Float3(<<0, 1, 0>>, 0)>>,
     <<Float3(<<2, 0, 0>>, 1), Float3(<<0, 1, 0>>, 0)>>,
     <<Infinite3(<<1, 0, 0>>), Float3(<<0, 1, 0>>, 0)>>,
     <<Float3(<<1, 0, 0>>, 0), Infinite3(<<0, -1, 0>>)>>}

\* the objects the constructors build
Interactions ==
    {Default(c) : c \in {"Interaction", "SurfaceInteraction", "MediumInteraction"}}
    \cup {SurfacePoint("Interaction", e, n, wo) :
            e \in PiErrors, n \in Normals, wo \in Outgoing}
    \cup {MediumPoint(c, wo, m) : c \in {"Interaction", "MediumInteraction"},
                                  wo \in Outgoing, m \in Media \cup {NullMedium}}
    \cup {NormalInMedium(n, m) : n \in Normals, m \in Media \cup {NullMedium}}
    \cup {PointOnly}
    \cup {PointAndNormal(e, n) : e \in PiErrors, n \in Normals}
    \cup {PointInMedium(m) : m \in Media \cup {NullMedium}}
    \cup {PointAtInterface(mi) : mi \in InterfacePointers}
    \cup {SurfaceInteraction(e, wo, pr[1], pr[2], dn[1], dn[2], f) :
            e \in SurfacePiErrors, wo \in SurfaceOutgoing, pr \in TangentPairs,
            dn \in NormalDerivativePairs, f \in BOOLEAN}

MaxSets == 2

InteractionInit ==
    /\ intr \in Interactions
    /\ debugBuild \in BOOLEAN
    /\ nTypes = 1
    /\ h = [s \in Slots |-> [bits |-> {}, origin |-> DefaultOrigin]]
    /\ res = NoRes
    /\ pc = "run"
    /\ supplied = <<>>
    /\ aggregate = [present |-> FALSE, bounds |-> "empty"]
    /\ lights = <<>>
    /\ infiniteLights = <<>>
    /\ sceneBounds = "unset"
    /\ idx = 0
    /\ ipc = "start"
    /\ log = <<>>
    /\ query = Idle
    /\ walk = Idle
    /\ film = Idle
    /\ render = Idle
    /\ cam = Idle

InteractionUnchanged ==
    UNCHANGED <<debugBuild, nTypes, h, res, pc, supplied, aggregate, lights,
                infiniteLights, sceneBounds, idx, ipc, log, query, walk, film, render, cam>>

\* a caller assigns the public member n
WriteNormal(v) ==
    /\ intr.at = "built"
    /\ intr' = [intr EXCEPT !.n = v, !.answer = NoCall]
    /\ InteractionUnchanged

\* a caller assigns the public member shading.n of a SurfaceInteraction
WriteShadingNormal(v) ==
    /\ intr.at = "built"
    /\ intr.class = "SurfaceInteraction"
    /\ intr' = [intr EXCEPT !.shadingN = v, !.answer = NoCall]
    /\ InteractionUnchanged

Before(o) == [mediumInterface |-> o.mediumInterface, medium |-> o.medium,
              n |-> o.n, shadingN |-> o.shadingN]

\* the call returns ("built"), stops at its check ("aborted") or never
\* leaves its loop ("looping"); nothing follows the last two
DoSetShadingGeometry(ns, dpdus, dpdvs, dndus, dndvs, orientationIsAuthoritative) ==
    /\ intr.at = "built"
    /\ intr.class = "SurfaceInteraction"
    /\ LET r == SetShadingGeometry(intr, ns, dpdus, dpdvs, dndus, dndvs,
                                   orientationIsAuthoritative)
       IN  intr' = [r.obj EXCEPT
                       !.at = IF r.fatal THEN "aborted"
                              ELSE IF r.hangs THEN "looping" ELSE "built",
                       !.answer = [NoCall EXCEPT
                                      !.op = "SetShadingGeometry",
                                      !.fatal = r.fatal,
                                      !.value = orientationIsAuthoritative,
                                      !.before = Before(intr)]]
    /\ InteractionUnchanged

DoSetIntersectionProperties(mtl, area, primMediumInterface, rayMedium) ==
    /\ intr.at = "built"
    /\ intr.class = "SurfaceInteraction"
    /\ intr.sets < MaxSets
    /\ LET r == SetIntersectionProperties(intr, mtl, area, primMediumInterface, rayMedium)
       IN  intr' = [r.obj EXCEPT
                       !.at = IF r.fatal THEN "aborted" ELSE "built",
                       !.sets = intr.sets + 1,
                       !.answer = [NoCall EXCEPT
                                      !.op = "SetIntersectionProperties",
                                      !.fatal = r.fatal,
                                      !.mtl = mtl, !.area = area,
                                      !.primMI = primMediumInterface,
                                      !.rayMedium = rayMedium,
                                      !.before = Before(intr)]]
    /\ InteractionUnchanged

Asked(op, v) == [NoCall EXCEPT !.op = op, !.value = v]
Checked(op, passed) == [NoCall EXCEPT !.op = op, !.fatal = ~passed]

DoIsSurfaceInteraction ==
    /\ intr.at = "built"
    /\ intr' = [intr EXCEPT !.at = "used",
                            !.answer = Asked("IsSurfaceInteraction",
                                             IsSurfaceInteraction(intr))]
    /\ InteractionUnchanged

DoIsMediumInteraction ==
    /\ intr.at = "built"
    /\ intr' = [intr EXCEPT !.at = "used",
                            !.answer = Asked("IsMediumInteraction",
                                             IsMediumInteraction(intr))]
    /\ InteractionUnchanged

DoAsSurface ==
    /\ intr.at = "built"
    /\ intr' = [intr EXCEPT !.at = IF AsSurface(intr) THEN "used" ELSE "aborted",
                            !.answer = Checked("AsSurface", AsSurface(intr))]
    /\ InteractionUnchanged

DoAsMedium ==
    /\ intr.at = "built"
    /\ intr' = [intr EXCEPT !.at = IF AsMedium(intr) THEN "used" ELSE "aborted",
                            !.answer = Checked("AsMedium", AsMedium(intr))]
    /\ InteractionUnchanged

DoGetMedium(w) ==
    /\ intr.at = "built"
    /\ intr' = [intr EXCEPT !.at = "used",
                            !.answer = [NoCall EXCEPT !.op = "GetMedium", !.w = w,
                                                      !.medium = GetMedium(intr, w)]]
    /\ InteractionUnchanged

DoSpawnRay(d) ==
    /\ intr.at = "built"
    /\ intr' = [intr EXCEPT !.at = "used",
                            !.answer = [NoCall EXCEPT !.op = "SpawnRay",
                                                      !.w = SpawnRay(intr, d).d,
                                                      !.medium = SpawnRay(intr, d).medium]]
    /\ InteractionUnchanged

DoSpawnRayTo(p2) ==
    /\ intr.at = "built"
    /\ intr' = [intr EXCEPT !.at = "used",
                            !.answer = [NoCall EXCEPT !.op = "SpawnRayTo",
                                                      !.w = SpawnRayTo(intr, p2).d,
                                                      !.medium = SpawnRayTo(intr, p2).medium]]
    /\ InteractionUnchanged

DoSpawnRayToInteraction(it) ==
    /\ intr.at = "built"
    /\ LET r == SpawnRayToInteraction(intr, it)
       IN  intr' = [intr EXCEPT !.at = "used",
                                !.answer = [NoCall EXCEPT !.op = "SpawnRayTo(it)",
                                                          !.w = r.d,
                                                          !.medium = r.medium]]
    /\ InteractionUnchanged

InteractionNext ==
    \/ \E v \in Normals : WriteNormal(v)
    \/ \E v \in Normals : WriteShadingNormal(v)
    \/ \E ns \in Normals, tg \in ShadingTangentPairs,
          dn \in ShadingNormalDerivativePairs,
          a \in BOOLEAN : DoSetShadingGeometry(ns, tg[1], tg[2], dn[1], dn[2], a)
    \/ \E mtl \in Materials, area \in AreaLights, mi \in InterfacePointers,
          rm \in RayMedia : DoSetIntersectionProperties(mtl, area, mi, rm)
    \/ DoIsSurfaceInteraction
    \/ DoIsMediumInteraction
    \/ DoAsSurface
    \/ DoAsMedium
    \/ \E w \in Directions : DoGetMedium(w)
    \/ \E d \in Directions : DoSpawnRay(d)
    \/ \E p2 \in Directions : DoSpawnRayTo(p2)
    \/ \E it \in Targets : DoSpawnRayToInteraction(it)

----------------------------------------------------------------------------
(* RandomWalkIntegrator::Li and LiRandomWalk (integrators.h).               *)
(* A SampledSpectrum is modelled by one of its components, the arithmetic   *)
(* being per component. The estimator multiplies by 4 Pi at every bounce;   *)
(* a radiance value is kept exactly, as the list of the whole coefficients  *)
(* c[1], c[2], ... of c[1] + c[2] (4 Pi) + c[3] (4 Pi)^2 + ..., without     *)
(* trailing zeros, so that the empty list is the radiance zero.             *)

MaxMaxDepth == 3
MaxWalkLights == 2

\* what the collaborators can answer
SurfaceEmissions == {0, 1}
LightEmissions == {0, 1}
BSDFValues == {0, 2}
Cosines == {0, 1}

RECURSIVE Norm(_)
Norm(c) == IF c = <<>> THEN c
           ELSE IF c[Len(c)] = 0 THEN Norm(SubSeq(c, 1, Len(c) - 1))
           ELSE c
\* SampledSpectrum(x)
Spectrum(x) == Norm(<<x>>)
\* Le + fcos * Li / (1 / (4 * Pi))
Combine(Le, fcos, Li) == Norm(<<Le>> \o [k \in 1..Len(Li) |-> fcos * Li[k]])

\* faulty variant: the sum starts from 1
RECURSIVE MissRadianceFromOne(_, _)
MissRadianceFromOne(ls, le) ==
    IF ls = <<>> THEN 1 ELSE le[Head(ls).id] + MissRadianceFromOne(Tail(ls), le)

\* SampledSpectrum Le(0.f); for (Light light : ls) Le += light.Le(ray, lambda);
RECURSIVE MissRadiance(_, _)
MissRadiance(ls, le) ==
    IF ls = <<>> THEN 0 ELSE le[Head(ls).id] + MissRadiance(Tail(ls), le)

\* faulty variant: every light of the scene is asked on a miss
MissLightsAll == lights

\* the lights a miss sums over: for (Light light : infiniteLights)
MissLights == infiniteLights

\* faulty variant: the walk stops one level late
DepthExhaustedLate(depth, maxDepth) == depth > maxDepth

\* if (depth == maxDepth) return Le;
DepthExhausted(depth, maxDepth) == depth = maxDepth

\* faulty variant: the test is for a negative value
IsZeroNegative(fcos) == fcos < 0

\* if (!fcos): no component of the spectrum is non-zero
IsZero(fcos) == fcos = 0

\* an activation of LiRandomWalk
Frame(depth) == [depth |-> depth, at |-> "intersect", Le |-> 0, fcos |-> 0,
                 why |-> "none", value |-> <<>>]
\* the activation has reached a return statement
Returning(f, why, v) == [f EXCEPT !.at = "return", !.why = why, !.value = v]

\* a call made by the estimator, with the depth of the activation making it
Did(call, depth, arg, value) ==
    [call |-> call, depth |-> depth, arg |-> arg, value |-> value]

WalkLightLists == UNION {[1..k -> {"Area", "Infinite"}] : k \in 0..MaxWalkLights}

\* a constructed RandomWalkIntegrator: maxDepth, and the lists the base
\* class constructor has filled
WalkInit ==
    /\ \E kinds \in WalkLightLists :
        /\ supplied = MakeLights(kinds)
        /\ lights = MakeLights(kinds)
        /\ infiniteLights = SelectSeq(MakeLights(kinds), IsInfinite)
        /\ idx = Len(kinds) + 1
        /\ \E le \in [DOMAIN kinds -> LightEmissions], d \in 0..MaxMaxDepth :
            walk = [at |-> "ready", maxDepth |-> d, lightLe |-> le,
                    stack |-> <<>>, trace |-> <<>>, result |-> <<>>]
    /\ aggregate = [present |-> TRUE, bounds |-> "unit"]
    /\ sceneBounds = "unit"
    /\ ipc = "constructed"
    /\ log = <<>>
    /\ debugBuild = FALSE
    /\ nTypes = 1
    /\ h = [s \in Slots |-> [bits |-> {}, origin |-> DefaultOrigin]]
    /\ res = NoRes
    /\ pc = "run"
    /\ query = Idle
    /\ intr = Idle
    /\ film = Idle
    /\ render = Idle
    /\ cam = Idle

WalkUnchanged ==
    UNCHANGED <<debugBuild, nTypes, h, res, pc, supplied, aggregate, lights,
                infiniteLights, sceneBounds, idx, ipc, log, query, intr, film, render, cam>>

Top == walk.stack[Len(walk.stack)]
Running(at) == walk.at = "running" /\ Top.at = at
SetTop(f) == [walk.stack EXCEPT ![Len(walk.stack)] = f]

\* Li(ray, lambda, sampler, scratchBuffer, visibleSurface):
\*     return LiRandomWalk(ray, lambda, sampler, scratchBuffer, 0);
Li ==
    /\ walk.at = "ready"
    /\ walk' = [walk EXCEPT !.at = "running",
                            !.stack = <<Frame(0)>>,
                            !.trace = <<Did("LiRandomWalk", 0, 0, 0)>>]
    /\ WalkUnchanged

\* the calls light.Le(ray, lambda) of the loop over the lights of a miss
LightCalls(ls, le, depth) ==
    [k \in DOMAIN ls |-> Did("Light::Le", depth, ls[k].id, le[ls[k].id])]

\* si = Intersect(ray) finds nothing: the emission of the infinite lights
\* is returned
Miss ==
    /\ Running("intersect")
    /\ walk' = [walk EXCEPT
                   !.trace = walk.trace \o <<Did("Intersect", Top.depth, 0, 0)>>
                                 \o LightCalls(MissLights, walk.lightLe, Top.depth),
                   !.stack = SetTop(Returning(Top, "miss",
                                 Spectrum(MissRadiance(MissLights, walk.lightLe))))]
    /\ WalkUnchanged

\* si = Intersect(ray) finds a surface; Le = isect.Le(wo, lambda);
\* if (depth == maxDepth) return Le;
Hit(le) ==
    /\ Running("intersect")
    /\ walk' = [walk EXCEPT
                   !.trace = walk.trace \o <<Did("Intersect", Top.depth, 0, 1),
                                             Did("Surface::Le", Top.depth, 0, le)>>,
                   !.stack = SetTop(IF DepthExhausted(Top.depth, walk.maxDepth)
                                    THEN Returning([Top EXCEPT !.Le = le], "depth",
                                                   Spectrum(le))
                                    ELSE [Top EXCEPT !.Le = le, !.at = "bsdf"])]
    /\ WalkUnchanged

\* bsdf = isect.GetBSDF(...); if (!bsdf) return Le;
NoBSDF ==
    /\ Running("bsdf")
    /\ walk' = [walk EXCEPT
                   !.trace = Append(walk.trace, Did("GetBSDF", Top.depth, 0, 0)),
                   !.stack = SetTop(Returning(Top, "no bsdf", Spectrum(Top.Le)))]
    /\ WalkUnchanged

\* the two operands of bsdf.f(wo, wp) * AbsDot(wp, isect.shading.n): the
\* language leaves open which of them is evaluated first
OperandOrders == {"BSDF::f", "AbsDot"}
OperandCalls(first, depth, f, cos) ==
    IF first = "BSDF::f"
    THEN <<Did("BSDF::f", depth, 0, f), Did("AbsDot", depth, 0, cos)>>
    ELSE <<Did("AbsDot", depth, 0, cos), Did("BSDF::f", depth, 0, f)>>

\* bsdf is defined; u = sampler.Get2D(); wp = SampleUniformSphere(u);
\* fcos = bsdf.f(wo, wp) * AbsDot(wp, isect.shading.n);
\* if (!fcos) return Le;
\* ray = isect.SpawnRay(wp); LiRandomWalk(ray, ..., depth + 1) is entered
Scatter(f, cos, first) ==
    /\ Running("bsdf")
    /\ LET sampled == walk.trace \o <<Did("GetBSDF", Top.depth, 0, 1),
                                      Did("Get2D", Top.depth, 0, 0)>>
                                 \o OperandCalls(first, Top.depth, f, cos)
           fcos == f * cos
       IN  IF IsZero(fcos)
           THEN walk' = [walk EXCEPT
                            !.trace = sampled,
                            !.stack = SetTop(Returning(Top, "fcos zero",
                                                       Spectrum(Top.Le)))]
           ELSE walk' = [walk EXCEPT
                            !.trace = sampled \o
                                <<Did("SpawnRay", Top.depth, 0, 0),
                                  Did("LiRandomWalk", Top.depth + 1, 0, 0)>>,
                            !.stack = Append(SetTop([Top EXCEPT !.at = "wait",
                                                                !.fcos = fcos]),
                                             Frame(Top.depth + 1))]
    /\ WalkUnchanged

\* an activation returns: to Li, whose caller gets the value, or to the
\* activation that called it, which returns Le + fcos * value / (1 / (4 * Pi))
Return ==
    /\ Running("return")
    /\ IF Len(walk.stack) = 1
       THEN walk' = [walk EXCEPT !.at = "done", !.stack = <<>>, !.result = Top.value]
       ELSE LET caller == walk.stack[Len(walk.stack) - 1]
                rest == SubSeq(walk.stack, 1, Len(walk.stack) - 2)
            IN  walk' = [walk EXCEPT
                            !.stack = Append(rest,
                                Returning(caller, "walked",
                                          Combine(caller.Le, caller.fcos, Top.value)))]
    /\ WalkUnchanged

WalkNext ==
    \/ Li
    \/ Miss
    \/ \E le \in SurfaceEmissions : Hit(le)
    \/ NoBSDF
    \/ \E f \in BSDFValues, cos \in Cosines, first \in OperandOrders :
          Scatter(f, cos, first)
    \/ Return

----------------------------------------------------------------------------
(* Film: AddSample and AddSplat (declared in base/film.h).                  *)
(* The accumulators of a pixel hold floating-point numbers. A Float is a    *)
(* whole number with FloatPrecision significant bits; a sum that needs more *)
(* bits is rounded to the nearest such number, ties to even.                *)

FloatPrecision == 24
MaxSamples == 3
MaxSplats == 2

RECURSIVE BitLength(_)
BitLength(x) == IF x = 0 THEN 0 ELSE 1 + BitLength(x \div 2)

RoundToFloat(x) ==
    LET e == BitLength(x) - FloatPrecision
    IN  IF e <= 0 THEN x
        ELSE LET unit == Pow2(e)
                 q == x \div unit
                 r == x % unit
                 up == r * 2 > unit \/ (r * 2 = unit /\ q % 2 = 1)
             IN  (IF up THEN q + 1 ELSE q) * unit

FloatAdd(a, b) == RoundToFloat(a + b)
FloatMul(a, b) == RoundToFloat(a * b)

\* the smallest Float to which adding 1 changes nothing
Big == Pow2(FloatPrecision)

Pixels == 1..2
Workers == 1..2
\* the worker rendering the tile a pixel lies in
Owner(pixel) == pixel

\* radiance and weight of a sample, value of a splat
SampleInputs == {[L |-> 1, weight |-> 1], [L |-> Big, weight |-> 1],
                 [L |-> 1, weight |-> 2]}
SplatInputs == {1, Big}

Sample(pixel, in) == [kind |-> "sample", pixel |-> pixel, L |-> in.L, weight |-> in.weight]
Splat(pixel, v) == [kind |-> "splat", pixel |-> pixel, L |-> v, weight |-> 1]

EmptyPixel == [sum |-> 0, weightSum |-> 0, splat |-> 0]

\* faulty variant: the filter weight is left out of the sum
AddSampleUnweighted(px, L, weight) ==
    [px EXCEPT !.sum = FloatAdd(px.sum, L),
               !.weightSum = FloatAdd(px.weightSum, weight)]

\* Film::AddSample(pFilm, L, lambda, visibleSurface, weight): the pixel
\* accumulates the weighted radiance and the weight
AddSample(px, L, weight) ==
    [px EXCEPT !.sum = FloatAdd(px.sum, FloatMul(weight, L)),
               !.weightSum = FloatAdd(px.weightSum, weight)]

\* faulty variant: the value is added to what the accumulator held when
\* the call was entered
AccumulateFromStaleRead(current, seen, v) == FloatAdd(seen, v)

\* the atomic accumulate of Film::AddSplat: one indivisible read, add and
\* write of the accumulator
AtomicAccumulate(current, seen, v) == FloatAdd(current, v)

Programs(ops, n) == UNION {[1..k -> ops] : k \in 0..n}

FilmInit ==
    /\ \E mode \in {"samples", "splats"} :
        \E q \in [Workers -> IF mode = "samples"
                             THEN Programs({1} \X SampleInputs, MaxSamples)
                             ELSE Programs(Pixels \X SplatInputs, MaxSplats)] :
            film = [at |-> "run",
                    mode |-> mode,
                    pixels |-> [p \in Pixels |-> EmptyPixel],
                    queue |-> [w \in Workers |->
                                [k \in DOMAIN q[w] |->
                                    IF mode = "samples"
                                    THEN Sample(w, q[w][k][2])
                                    ELSE Splat(q[w][k][1], q[w][k][2])]],
                    done |-> [w \in Workers |-> <<>>],
                    seen |-> [w \in Workers |-> 0],
                    entered |-> [w \in Workers |-> FALSE]]
    /\ debugBuild = FALSE
    /\ nTypes = 1
    /\ h = [s \in Slots |-> [bits |-> {}, origin |-> DefaultOrigin]]
    /\ res = NoRes
    /\ pc = "run"
    /\ supplied = <<>>
    /\ aggregate = [present |-> FALSE, bounds |-> "empty"]
    /\ lights = <<>>
    /\ infiniteLights = <<>>
    /\ sceneBounds = "unset"
    /\ idx = 0
    /\ ipc = "start"
    /\ log = <<>>
    /\ query = Idle
    /\ intr = Idle
    /\ walk = Idle
    /\ render = Idle
    /\ cam = Idle

FilmUnchanged ==
    UNCHANGED <<debugBuild, nTypes, h, res, pc, supplied, aggregate, lights,
                infiniteLights, sceneBounds, idx, ipc, log, query, intr, walk, render, cam>>

NextOp(w) == Head(film.queue[w])
Finish(w) == [film EXCEPT !.queue[w] = Tail(film.queue[w]),
                          !.done[w] = Append(film.done[w], NextOp(w)),
                          !.entered[w] = FALSE]

\* worker w calls film.AddSample for a sample of a pixel of its tile
DoAddSample(w) ==
    /\ film.at = "run"
    /\ film.queue[w] # <<>>
    /\ NextOp(w).kind = "sample"
    /\ film' = [Finish(w) EXCEPT
                   !.pixels[NextOp(w).pixel] =
                       AddSample(film.pixels[NextOp(w).pixel], NextOp(w).L,
                                 NextOp(w).weight)]
    /\ FilmUnchanged

\* worker w enters film.AddSplat: the pixel the position falls in is found
SplatEnter(w) ==
    /\ film.at = "run"
    /\ film.queue[w] # <<>>
    /\ NextOp(w).kind = "splat"
    /\ ~film.entered[w]
    /\ film' = [film EXCEPT !.entered[w] = TRUE,
                            !.seen[w] = film.pixels[NextOp(w).pixel].splat]
    /\ FilmUnchanged

\* worker w's AddSplat accumulates the value and returns
SplatAccumulate(w) ==
    /\ film.at = "run"
    /\ film.queue[w] # <<>>
    /\ NextOp(w).kind = "splat"
    /\ film.entered[w]
    /\ film' = [Finish(w) EXCEPT
                   !.pixels[NextOp(w).pixel].splat =
                       AtomicAccumulate(film.pixels[NextOp(w).pixel].splat,
                                        film.seen[w], NextOp(w).L)]
    /\ FilmUnchanged

FilmNext ==
    \/ \E w \in Workers : DoAddSample(w)
    \/ \E w \in Workers : SplatEnter(w)
    \/ \E w \in Workers : SplatAccumulate(w)

----------------------------------------------------------------------------
(* ImageTileIntegrator::Render and the Sampler (integrators.h,              *)
(* base/sampler.h): the workers take pixel samples from the tiles; each     *)
(* evaluates its samples with a sampler of its own.                         *)

MaxPixelSamples == 3
MaxDraws == 2

\* sampler instances: the prototype the integrator was built with, and the
\* clones, numbered as they are made
Prototype == 0
NoSampler == -1

\* faulty variant: the copy of the handle, which points to the same instance
CloneHandleCopy(instance, made) == instance

\* Sampler::Clone(): a new sampler instance, a copy of the one it is called on
Clone(instance, made) == made + 1

\* faulty variant: every worker uses the sampler the integrator was built with
SamplerOfPrototype(w) == Prototype

\* the sampler a worker context evaluates its samples with
SamplerOf(w) == render.clone[w]

Use(w, sampler, call) == [worker |-> w, sampler |-> sampler, call |-> call]

RenderInit ==
    /\ render = [at |-> "run",
                 clone |-> [w \in Workers |-> NoSampler],
                 cloned |-> [w \in Workers |-> 0],
                 made |-> 0,
                 remaining |-> MaxPixelSamples,
                 taken |-> [w \in Workers |-> 0],
                 busy |-> [w \in Workers |-> FALSE],
                 draws |-> [w \in Workers |-> 0],
                 uses |-> {}]
    /\ debugBuild = FALSE
    /\ nTypes = 1
    /\ h = [s \in Slots |-> [bits |-> {}, origin |-> DefaultOrigin]]
    /\ res = NoRes
    /\ pc = "run"
    /\ supplied = <<>>
    /\ aggregate = [present |-> TRUE, bounds |-> "unit"]
    /\ lights = <<>>
    /\ infiniteLights = <<>>
    /\ sceneBounds = "unit"
    /\ idx = 1
    /\ ipc = "constructed"
    /\ log = <<>>
    /\ query = Idle
    /\ intr = Idle
    /\ walk = Idle
    /\ film = Idle
    /\ cam = Idle

RenderUnchanged ==
    UNCHANGED <<debugBuild, nTypes, h, res, pc, supplied, aggregate, lights,
                infiniteLights, sceneBounds, idx, ipc, log, query, intr, walk, film, cam>>

\* a worker context that has no sampler yet clones samplerPrototype
CloneSampler(w) ==
    /\ render.at = "run"
    /\ render.clone[w] = NoSampler
    /\ render' = [render EXCEPT
                     !.clone[w] = Clone(Prototype, render.made),
                     !.cloned[w] = render.cloned[w] + 1,
                     !.made = render.made + 1,
                     !.uses = render.uses \cup {Use(w, Prototype, "Clone")}]
    /\ RenderUnchanged

\* the worker takes the next pixel sample and starts its sampler at it:
\* sampler.StartPixelSample(pPixel, sampleIndex)
StartPixelSample(w) ==
    /\ render.at = "run"
    /\ render.clone[w] # NoSampler
    /\ ~render.busy[w]
    /\ render.remaining > 0
    /\ render' = [render EXCEPT
                     !.remaining = render.remaining - 1,
                     !.taken[w] = render.taken[w] + 1,
                     !.busy[w] = TRUE,
                     !.draws[w] = 0,
                     !.uses = render.uses \cup {Use(w, SamplerOf(w), "StartPixelSample")}]
    /\ RenderUnchanged

\* EvaluatePixelSample(pPixel, sampleIndex, sampler, scratchBuffer) draws a
\* value from the sampler it was handed: sampler.Get1D() or sampler.Get2D()
Draw(w, call) ==
    /\ render.at = "run"
    /\ render.busy[w]
    /\ render.draws[w] < MaxDraws
    /\ render' = [render EXCEPT
                     !.draws[w] = render.draws[w] + 1,
                     !.uses = render.uses \cup {Use(w, SamplerOf(w), call)}]
    /\ RenderUnchanged

\* EvaluatePixelSample returns
EndPixelSample(w) ==
    /\ render.at = "run"
    /\ render.busy[w]
    /\ render' = [render EXCEPT !.busy[w] = FALSE]
    /\ RenderUnchanged

RenderNext ==
    \/ \E w \in Workers : CloneSampler(w)
    \/ \E w \in Workers : StartPixelSample(w)
    \/ \E w \in Workers, call \in {"Get1D", "Get2D"} : Draw(w, call)
    \/ \E w \in Workers : EndPixelSample(w)

----------------------------------------------------------------------------
(* Cameras (cameras.h): the four camera classes of the Camera handle and    *)
(* the calls GenerateRay, GenerateRayDifferential, We, PDF_We and SampleWi. *)

MaxCameraCalls == 2

\* the types of Camera's TaggedPointer, in their order
Cameras == <<"PerspectiveCamera", "OrthographicCamera", "SphericalCamera",
             "RealisticCamera">>

\* what a call gives back; LOG_FATAL(...) reports the error and ends the
\* program, so that the return statement after it is not reached
Gives(v) == [fatal |-> FALSE, value |-> v]
LOG_FATAL == [fatal |-> TRUE, value |-> "none"]

\* what the implementations can compute: a ray or no ray for a sample, an
\* importance value, a sample of an incident direction or none
RayOutcomes == {"none", "ray"}
Importances == {"black", "importance"}
WiOutcomes == {"none", "sample"}

\* GenerateRay(sample, lambda): pstd::optional<CameraRay>
GenerateRay(camera, out) == Gives(out)

\* GenerateRayDifferential(sample, lambda): the projective cameras compute
\* the differentials themselves, the other two call
\* CameraBase::GenerateRayDifferential(this, sample, lambda); no value when
\* no ray is generated
GenerateRayDifferential(camera, out) ==
    Gives(IF out = "none" THEN "none" ELSE "differential")

\* faulty variant: the importance is computed for both projective cameras
WeOfProjective(camera, out) ==
    IF camera \in {"PerspectiveCamera", "OrthographicCamera"} THEN Gives(out)
    ELSE LOG_FATAL

\* We(ray, lambda, pRaster2)
We(camera, out) ==
    IF camera = "PerspectiveCamera" THEN Gives(out) ELSE LOG_FATAL

\* PDF_We(ray, pdfPos, pdfDir)
PDF_We(camera) ==
    IF camera = "PerspectiveCamera" THEN Gives("pdfs") ELSE LOG_FATAL

\* SampleWi(ref, u, lambda): pstd::optional<CameraWiSample>
SampleWi(camera, out) ==
    IF camera = "PerspectiveCamera" THEN Gives(out) ELSE LOG_FATAL

CameraInit ==
    /\ \E k \in DOMAIN Cameras :
        cam = [at |-> "built", camera |-> Cameras[k], done |-> <<>>]
    /\ debugBuild = FALSE
    /\ nTypes = 4
    /\ h = [s \in Slots |-> [bits |-> {}, origin |-> DefaultOrigin]]
    /\ res = NoRes
    /\ pc = "run"
    /\ supplied = <<>>
    /\ aggregate = [present |-> FALSE, bounds |-> "empty"]
    /\ lights = <<>>
    /\ infiniteLights = <<>>
    /\ sceneBounds = "unset"
    /\ idx = 0
    /\ ipc = "start"
    /\ log = <<>>
    /\ query = Idle
    /\ intr = Idle
    /\ walk = Idle
    /\ film = Idle
    /\ render = Idle

\* a call on the camera returns, or ends the program
CameraCall(op, r) ==
    /\ cam.at = "built"
    /\ Len(cam.done) < MaxCameraCalls
    /\ cam' = [cam EXCEPT
                  !.at = IF r.fatal THEN "aborted" ELSE "built",
                  !.done = Append(cam.done,
                                  [op |-> op, fatal |-> r.fatal, value |-> r.value])]
    /\ UNCHANGED <<debugBuild, nTypes, h, res, pc, supplied, aggregate, lights,
                   infiniteLights, sceneBounds, idx, ipc, log, query, intr, walk,
                   film, render>>

CallGenerateRay(out) == CameraCall("GenerateRay", GenerateRay(cam.camera, out))
CallGenerateRayDifferential(out) ==
    CameraCall("GenerateRayDifferential", GenerateRayDifferential(cam.camera, out))
CallWe(out) == CameraCall("We", We(cam.camera, out))
CallPDF_We == CameraCall("PDF_We", PDF_We(cam.camera))
CallSampleWi(out) == CameraCall("SampleWi", SampleWi(cam.camera, out))

CameraNext ==
    \/ \E out \in RayOutcomes : CallGenerateRay(out)
    \/ \E out \in RayOutcomes : CallGenerateRayDifferential(out)
    \/ \E out \in Importances : CallWe(out)
    \/ CallPDF_We
    \/ \E out \in WiOutcomes : CallSampleWi(out)

----------------------------------------------------------------------------
(* Specifications *)

\* the handle program alone
SpecHandle == HandleInit /\ [][HandleNext]_vars

\* the construction and use of one integrator alone
SpecIntegrator == IntegratorInit /\ [][IntegratorNext]_vars

\* the scene queries on the ray between two interaction points
SpecQuery == QueryInit /\ [][QueryNext]_vars

\* one interaction object: its construction and the calls made on it
SpecInteraction == InteractionInit /\ [][InteractionNext]_vars

\* one evaluation of Li by a constructed RandomWalkIntegrator; the
\* evaluation is a sequential computation whose every call returns, so it
\* goes on as long as it has a step to take
SpecWalk == WalkInit /\ [][WalkNext]_vars /\ WF_vars(WalkNext)

\* two workers adding samples of their own pixels, or splats to any pixel,
\* to one film
SpecFilm == FilmInit /\ [][FilmNext]_vars

\* two worker contexts rendering the pixel samples of an image
SpecRender == RenderInit /\ [][RenderNext]_vars

\* calls on one camera of each of the four classes
SpecCamera == CameraInit /\ [][CameraNext]_vars

----------------------------------------------------------------------------
(* Properties of the handle *)

Bits(s) == h[s].bits
Origin(s) == h[s].origin
FromPtr(s) == Origin(s).kind = "ptr"
Empty(s) == Origin(s).kind \in {"default", "nullptr"}

\* C1 as stated: for every handle and every T of the set, Is<T>() is true
\* if and only if the handle was constructed from a T* (or copied from such
\* a handle), and it is false for every T on a default or nullptr handle.
C1_IsIffConstructedFromT ==
    \A s \in Slots, T \in Types :
        Is(Bits(s), T) <=> (FromPtr(s) /\ Origin(s).T = T)

\* C1 amended: for every handle constructed from a T* whose address fits in
\* the low 57 bits (or copied from such a handle), Is<U>() is true if and
\* only if U is T; on a default or nullptr handle Is<U>() is false for all U.
C1_IsIffConstructedFromFittingT ==
    \A s \in Slots, U \in Types :
        /\ (FromPtr(s) /\ Fits(Origin(s).p)) => (Is(Bits(s), U) <=> Origin(s).T = U)
        /\ Empty(s) => ~Is(Bits(s), U)

\* a handle of the 10-type pack built from a pointer to its 9th type, with
\* its copy in the other variable
C1_Witness ==
    /\ nTypes = 10
    /\ FromPtr("a") /\ Origin("a").T = 8 /\ Origin("a").p = TopAddr
    /\ h["b"] = h["a"]
    /\ Is(Bits("b"), 8)

\* C2 as stated: Dispatch on a non-empty handle built from a T* invokes the
\* callable exactly once, with the stored pointer typed as T, T being the
\* k-th type of the set for Tag() = k.
C2_DispatchRoutesToT ==
    (res.op = "Dispatch" /\ FromPtr(res.slot) /\ OpBool(Bits(res.slot))) =>
        /\ ~res.fatal
        /\ Len(res.calls) = 1
        /\ res.calls[1].type = Origin(res.slot).T
        /\ res.calls[1].ptr = ptr(Bits(res.slot))
        /\ Tag(Bits(res.slot)) = res.calls[1].type + 1

\* C2 amended: the same, for a non-empty handle built from a T* whose
\* address fits in the low 57 bits.
C2_DispatchRoutesToFittingT ==
    (/\ res.op = "Dispatch"
     /\ FromPtr(res.slot)
     /\ Fits(Origin(res.slot).p)
     /\ OpBool(Bits(res.slot))) =>
        /\ ~res.fatal
        /\ Len(res.calls) = 1
        /\ res.calls[1].type = Origin(res.slot).T
        /\ res.calls[1].ptr = Origin(res.slot).p
        /\ Tag(Bits(res.slot)) = res.calls[1].type + 1

\* Dispatch reached the 10th type of the 10-type pack, through the chained
\* switch
C2_Witness ==
    /\ res.op = "Dispatch"
    /\ nTypes = 10
    /\ Origin(res.slot).T = 9
    /\ Origin(res.slot).p = TopAddr
    /\ res.calls = <<[type |-> 9, ptr |-> TopAddr]>>

\* C3: a handle built from a T* p whose address fits in the low 57 bits
\* answers Is<T>() with true, and Cast<T>() and ptr() give back exactly p;
\* so does every copy of it.
C3_CastReturnsOriginalPointer ==
    /\ \A s \in Slots :
        (FromPtr(s) /\ Fits(Origin(s).p)) =>
            /\ Is(Bits(s), Origin(s).T)
            /\ ptr(Bits(s)) = Origin(s).p
            /\ Cast(Bits(s), Origin(s).T) = Returned(Origin(s).p)
    /\ (/\ res.op = "Cast"
        /\ FromPtr(res.slot)
        /\ Fits(Origin(res.slot).p)
        /\ res.T = Origin(res.slot).T) =>
            (~res.fatal /\ res.value = Origin(res.slot).p)

\* Cast<T>() was applied to the copy of a handle built from a T* using the
\* highest address bit, and returned that address
C3_Witness ==
    /\ res.op = "Cast" /\ res.slot = "b"
    /\ h["b"] = h["a"]
    /\ FromPtr("b") /\ Origin("b").p = TopAddr /\ Origin("b").T = res.T
    /\ nTypes = 9 /\ res.T = 8
    /\ res.value = TopAddr

\* the encoded value as a number, in three limbs from the most significant:
\* bits 57..63, bits 29..56, bits 0..28
Limbs(bits) ==
    <<ValueOf(ShiftRight(BitAnd(bits, 57..63), 57)),
      ValueOf(ShiftRight(BitAnd(bits, 29..56), 29)),
      ValueOf(BitAnd(bits, 0..28))>>
NumLess(x, y) ==
    \/ x[1] < y[1]
    \/ x[1] = y[1] /\ x[2] < y[2]
    \/ x[1] = y[1] /\ x[2] = y[2] /\ x[3] < y[3]

\* every encoding a constructor of the handle class can store
Encodings == {{}} \cup {Encode(T, p) : T \in Types, p \in Addrs}

\* C4: == is bit-for-bit equality of the encoded values, != is its negation,
\* < is < on the encoded values; equality is reflexive, symmetric and
\* transitive, and exactly one of a < b, a == b, b < a holds.
C4_ComparisonIsOnEncoding ==
    /\ res.op = "compare" =>
        /\ res.eq <=> (\A i \in Word : i \in Bits(res.slot) <=> i \in Bits(res.other))
        /\ res.ne <=> ~res.eq
        /\ res.lt <=> NumLess(Limbs(Bits(res.slot)), Limbs(Bits(res.other)))
    /\ \A s \in Slots, t \in Slots :
        LET a == Bits(s)
            b == Bits(t)
        IN  /\ OpEq(a, a)
            /\ OpEq(a, b) <=> OpEq(b, a)
            /\ OpNe(a, b) <=> ~OpEq(a, b)
            /\ OpEq(a, b) => \A c \in Encodings : OpEq(b, c) => OpEq(a, c)
            /\ \/ OpLess(a, b) /\ ~OpEq(a, b) /\ ~OpLess(b, a)
               \/ ~OpLess(a, b) /\ OpEq(a, b) /\ ~OpLess(b, a)
               \/ ~OpLess(a, b) /\ ~OpEq(a, b) /\ OpLess(b, a)

\* two handles were compared whose order is decided by the tag against the
\* order of their addresses
C4_Witness ==
    /\ res.op = "compare" /\ res.slot = "a" /\ res.other = "b"
    /\ res.lt /\ res.ne /\ ~res.eq
    /\ Tag(Bits("a")) < Tag(Bits("b"))
    /\ ptr(Bits("a")) = TopAddr /\ ptr(Bits("b")) = NullAddr

\* C5 as stated: in every reachable state Tag() lies in [0, MaxTag()], it is
\* 0 exactly for handles from default or nullptr construction, and a handle
\* built from the i-th type (1-based) has Tag() = i.
C5_TagInRange ==
    \A s \in Slots :
        /\ Tag(Bits(s)) \in 0..MaxTag
        /\ Tag(Bits(s)) = 0 <=> Empty(s)
        /\ FromPtr(s) => Tag(Bits(s)) = Origin(s).T + 1

\* C5 amended: the same, for the states reachable through default and
\* nullptr construction, construction from a T* whose address fits in the
\* low 57 bits, copy construction and assignment.
C5_TagInRangeWhenFitting ==
    \A s \in Slots :
        (FromPtr(s) => Fits(Origin(s).p)) =>
            /\ Tag(Bits(s)) \in 0..MaxTag
            /\ Tag(Bits(s)) = 0 <=> Empty(s)
            /\ FromPtr(s) => Tag(Bits(s)) = Origin(s).T + 1

\* a handle built from the last type of the 10-type pack carries the
\* largest tag, beside a nullptr handle carrying tag 0
C5_Witness ==
    /\ nTypes = 10
    /\ FromPtr("a") /\ Origin("a").p = TopAddr /\ Tag(Bits("a")) = 10
    /\ Origin("b").kind = "nullptr" /\ Tag(Bits("b")) = 0

\* the tag a handle built from (T, p) carries when nothing stops the
\* construction: the type index or-ed with the address bits 57..63
OredTag(T, p) == ValueOf(BitOr(BitsOf(T + 1), ShiftRight(BitAnd(p, 57..63), 57)))

\* C6 as stated: constructing a handle from a pointer whose address does not
\* fit in the low 57 bits is rejected by a check, so no handle is ever
\* produced whose tag differs from the index of the constructing type.
C6_OversizeAddressRejected ==
    \A s \in Slots :
        FromPtr(s) => (Fits(Origin(s).p) /\ Tag(Bits(s)) = Origin(s).T + 1)

\* C6 amended: in a debug build (DCHECK compiled in) the construction from a
\* pointer that does not fit is stopped by the fatal check and no handle with
\* a corrupted tag exists; in other builds there is no check, the handle is
\* produced and its tag is the type index or-ed with the high address bits.
C6_OversizeAddressRejectedInDebug ==
    /\ debugBuild =>
        /\ \A s \in Slots :
            FromPtr(s) => (Fits(Origin(s).p) /\ Tag(Bits(s)) = Origin(s).T + 1)
        /\ res.op = "TaggedPointer" => (pc = "aborted" /\ ~Fits(res.value))
    /\ ~debugBuild =>
        /\ \A s \in Slots :
            FromPtr(s) => Tag(Bits(s)) = OredTag(Origin(s).T, Origin(s).p)
        /\ res.op # "TaggedPointer"

\* a debug build stopped at the construction from an address reaching into
\* the tag field
C6_Witness ==
    /\ debugBuild
    /\ pc = "aborted"
    /\ res.op = "TaggedPointer" /\ res.fatal /\ res.value = HighAddr

\* C7 as stated: Cast<T>() on a handle whose tag is not T's index fails a
\* runtime check and yields no pointer, CastOrNullptr<T>() on the same handle
\* returns nullptr without failing; when the tag matches both return the
\* stored pointer.
C7_CastChecksTag ==
    /\ res.op = "Cast" =>
        IF Tag(Bits(res.slot)) = res.T + 1
        THEN ~res.fatal /\ res.value = ptr(Bits(res.slot))
        ELSE res.fatal /\ pc = "aborted"
    /\ res.op = "CastOrNullptr" =>
        /\ ~res.fatal
        /\ res.value = IF Tag(Bits(res.slot)) = res.T + 1
                       THEN ptr(Bits(res.slot)) ELSE NullAddr

\* C7 amended: in a debug build Cast<T>() on a handle whose tag is not T's
\* index fails the check and yields no pointer; in other builds there is no
\* check and Cast<T>() returns the stored address as a T*. CastOrNullptr<T>()
\* returns nullptr on a mismatch in every build, and when the tag matches
\* both return the stored pointer.
C7_CastChecksTagInDebug ==
    /\ res.op = "Cast" =>
        IF Tag(Bits(res.slot)) = res.T + 1
        THEN ~res.fatal /\ res.value = ptr(Bits(res.slot))
        ELSE IF debugBuild
             THEN res.fatal /\ pc = "aborted"
             ELSE ~res.fatal /\ res.value = ptr(Bits(res.slot))
    /\ res.op = "CastOrNullptr" =>
        /\ ~res.fatal
        /\ res.value = IF Tag(Bits(res.slot)) = res.T + 1
                       THEN ptr(Bits(res.slot)) ELSE NullAddr

\* a debug build stopped at Cast<T>() on a handle built from another type
C7_Witness ==
    /\ debugBuild
    /\ res.op = "Cast" /\ res.fatal /\ pc = "aborted"
    /\ FromPtr(res.slot) /\ Origin(res.slot).p = TopAddr
    /\ Origin(res.slot).T # res.T

\* C8 as stated: Dispatch and DispatchCPU on an empty handle stop at a fatal
\* check, the callable is never invoked.
C8_DispatchOnEmptyIsFatal ==
    (res.op \in {"Dispatch", "DispatchCPU"} /\ Empty(res.slot)) =>
        (res.fatal /\ res.calls = <<>> /\ pc = "aborted")

\* C8 amended: in a debug build Dispatch and DispatchCPU on an empty handle
\* stop at the fatal check and the callable is never invoked; in other builds
\* there is no check, the index is -1 and the switch takes its default
\* branch: the callable is invoked once, with a null pointer typed as the
\* last type of the set.
C8_DispatchOnEmptyIsFatalInDebug ==
    (res.op \in {"Dispatch", "DispatchCPU"} /\ Empty(res.slot)) =>
        IF debugBuild
        THEN res.fatal /\ res.calls = <<>> /\ pc = "aborted"
        ELSE ~res.fatal /\ res.calls = <<[type |-> nTypes - 1, ptr |-> NullAddr]>>

\* a debug build stopped at DispatchCPU on a default-constructed handle of
\* the 9-type pack
C8_Witness ==
    /\ debugBuild /\ nTypes = 9
    /\ res.op = "DispatchCPU" /\ res.fatal /\ pc = "aborted"
    /\ Origin(res.slot).kind = "default"

\* C25: the two dispatch entry points route alike: for every handle,
\* Dispatch and DispatchCPU invoke the callable with the same concrete type
\* and the same pointer (or both stop at the same check); for a handle built
\* from a non-null pointer, with a tag in 1..n, that is one invocation with
\* the type of position Tag() - 1 and the pointer ptr().
C25_DispatchAndDispatchCPURouteAlike ==
    /\ \A s \in Slots :
        /\ Dispatch(h[s].bits) = DispatchCPU(h[s].bits)
        /\ (ptr(h[s].bits) # NullAddr /\ Tag(h[s].bits) \in 1..nTypes) =>
            /\ ~DispatchCPU(h[s].bits).fatal
            /\ DispatchCPU(h[s].bits).calls =
                   <<[type |-> Tag(h[s].bits) - 1, ptr |-> ptr(h[s].bits)]>>
    /\ res.op \in {"Dispatch", "DispatchCPU"} =>
        /\ res.fatal = Dispatch(h[res.slot].bits).fatal
        /\ res.calls = Dispatch(h[res.slot].bits).calls
        /\ res.fatal = DispatchCPU(h[res.slot].bits).fatal
        /\ res.calls = DispatchCPU(h[res.slot].bits).calls

\* DispatchCPU was called on a handle of the last of ten types: the callable
\* was invoked once, with that type and the handle's pointer
C25_Witness ==
    /\ res.op = "DispatchCPU" /\ ~res.fatal
    /\ nTypes = 10
    /\ h[res.slot].origin = PtrOrigin(9, TopAddr)
    /\ res.calls = <<[type |-> 9, ptr |-> TopAddr]>>

\* the address bits of the pointer a handle was built from
AddressBits(origin) ==
    IF origin.kind = "ptr" THEN BitAnd(origin.p, ptrMask) ELSE {}

\* C27: a handle's boolean conversion is true iff its address bits are
\* non-zero, whatever its tag: a handle constructed from a null T* converts
\* to false, yet has Tag() = TypeIndex<T>() # 0, answers Is<T>() with true,
\* and compares unequal to the default and the nullptr handle, which are
\* equal to each other.
C27_BoolIgnoresTag ==
    /\ \A s \in Slots :
        /\ OpBool(h[s].bits) <=> AddressBits(h[s].origin) # {}
        /\ (h[s].origin.kind = "ptr" /\ h[s].origin.p = NullAddr) =>
            /\ ~OpBool(h[s].bits)
            /\ Tag(h[s].bits) = TypeIndex(h[s].origin.T)
            /\ Tag(h[s].bits) # 0
            /\ Is(h[s].bits, h[s].origin.T)
            /\ \A t \in Slots :
                h[t].origin.kind \in {"default", "nullptr"} =>
                    /\ OpNe(h[s].bits, h[t].bits)
                    /\ ~OpEq(h[s].bits, h[t].bits)
        /\ \A t \in Slots :
            (h[s].origin.kind = "default" /\ h[t].origin.kind = "nullptr") =>
                /\ OpEq(h[s].bits, h[t].bits)
                /\ ~OpBool(h[s].bits) /\ ~OpBool(h[t].bits)
    /\ (/\ res.op = "compare"
        /\ h[res.slot].origin.kind = "ptr" /\ h[res.slot].origin.p = NullAddr
        /\ h[res.other].origin.kind \in {"default", "nullptr"}) =>
            res.ne /\ ~res.eq

\* a handle built from a null pointer of the second type was compared with
\* the nullptr handle: they are unequal
C27_Witness ==
    /\ res.op = "compare"
    /\ h[res.slot].origin = PtrOrigin(1, NullAddr)
    /\ h[res.other].origin.kind = "nullptr"
    /\ Tag(h[res.slot].bits) = 2
    /\ ~OpBool(h[res.slot].bits)
    /\ res.ne

----------------------------------------------------------------------------
(* Properties of the Integrator *)

Constructed == ipc = "constructed"
InSeq(x, q) == \E k \in DOMAIN q : q[k] = x

\* C9 as stated: after construction the supplied lights are partitioned into
\* a finite list (lights) and an infinite list (infiniteLights): every light
\* of kind Infinite is in the infinite list, every light of the other three
\* kinds is in the finite list, and no light is in both lists.
C9_LightsPartitioned ==
    Constructed =>
        \A k \in DOMAIN supplied :
            LET l == supplied[k]
            IN  /\ l.type = "Infinite" => InSeq(l, infiniteLights)
                /\ l.type # "Infinite" => InSeq(l, lights)
                /\ ~(InSeq(l, lights) /\ InSeq(l, infiniteLights))

\* C9 amended: after construction lights holds every supplied light, of all
\* four kinds, in the supplied order, and infiniteLights holds exactly the
\* supplied lights of kind Infinite, in the supplied order; a light of kind
\* Infinite is in both lists, a light of another kind only in lights.
C9_InfiniteLightsAlsoListed ==
    Constructed =>
        /\ lights = supplied
        /\ infiniteLights = SelectSeq(supplied, LAMBDA l : l.type = "Infinite")
        /\ \A k \in DOMAIN supplied :
            LET l == supplied[k]
            IN  /\ InSeq(l, lights)
                /\ InSeq(l, infiniteLights) <=> l.type = "Infinite"

\* an integrator was built from lights of the three other kinds and from
\* an infinite light
C9_Witness ==
    /\ Constructed
    /\ Len(supplied) = 3
    /\ {supplied[k].type : k \in DOMAIN supplied} = {"Area", "Infinite", "DeltaPosition"}
    /\ Len(infiniteLights) = 1
    /\ InSeq(infiniteLights[1], lights)

\* the Preprocess calls made so far, in order
PreprocessCalls == SelectSeq(log, LAMBDA e : e.ev = "Preprocess")
\* the scene bounds the lights are to see
ExpectedBounds == IF aggregate.present THEN aggregate.bounds ELSE "empty"
Earlier(k, ev, light) == \E j \in 1..(k - 1) : log[j].ev = ev /\ log[j].light = light

\* C10: the constructor calls Preprocess exactly once on every supplied
\* light, in list order, with the scene bounds (aggregate.Bounds() when there
\* is an aggregate, the default empty bounds otherwise); each light is
\* preprocessed before it is classified into infiniteLights, and before
\* Render or a scene query of the integrator runs.
C10_PreprocessOnceInOrder ==
    /\ Len(PreprocessCalls) <= Len(supplied)
    /\ \A k \in DOMAIN PreprocessCalls :
        /\ PreprocessCalls[k].light = supplied[k].id
        /\ PreprocessCalls[k].bounds = ExpectedBounds
    /\ \A k \in DOMAIN log :
        /\ log[k].ev = "Type" => Earlier(k, "Preprocess", log[k].light)
        /\ log[k].ev \in {"Render", "Query"} =>
            \A i \in DOMAIN supplied : Earlier(k, "Preprocess", supplied[i].id)
    /\ \A k \in DOMAIN infiniteLights :
        \E j \in DOMAIN log : log[j].ev = "Preprocess" /\ log[j].light = infiniteLights[k].id
    /\ Constructed => Len(PreprocessCalls) = Len(supplied)

\* an integrator over an aggregate and three lights, the second infinite,
\* was built and has rendered and answered a query
C10_Witness ==
    /\ Constructed
    /\ aggregate.present /\ aggregate.bounds = "big"
    /\ Len(supplied) = 3 /\ supplied[2].type = "Infinite"
    /\ Len(PreprocessCalls) = 3
    /\ \E k \in DOMAIN log : log[k].ev = "Render"
    /\ \E k \in DOMAIN log : log[k].ev = "Query"

----------------------------------------------------------------------------
(* Properties of the Scene Query Facade *)

\* the far end of the shadow ray's tested interval, 1 - ShadowEpsilon
InsetEnd == UnitT - ShadowEpsilon

\* C11: Unoccluded(p0, p1) returns true if and only if no blocker lies on
\* the ray from p0 toward p1 before the parameter 1 - ShadowEpsilon; a
\* blocker at or beyond that inset endpoint does not make the points
\* occluded; Unoccluded asks the boolean test IntersectP once, with the bound
\* 1 - ShadowEpsilon, and never the nearest-hit query Intersect.
C11_UnoccludedIffNoBlockerBeforeInset ==
    query.answer.fn = "Unoccluded" =>
        /\ query.answer.result <=> (query.blockers \cap 1..(InsetEnd - 1) = {})
        /\ (\A t \in query.blockers : t >= InsetEnd) => query.answer.result
        /\ query.calls = <<[fn |-> "IntersectP", tMax |-> InsetEnd]>>
        /\ \A k \in DOMAIN query.calls : query.calls[k].fn # "Intersect"

\* Unoccluded answered true although blockers lie exactly at the inset
\* endpoint and between it and p1
C11_Witness ==
    /\ query.answer.fn = "Unoccluded"
    /\ query.blockers = {InsetEnd, UnitT - 1}
    /\ query.answer.result

----------------------------------------------------------------------------
(* Properties of the interaction records *)

NonZero(v) == \E i \in 1..3 : v[i] # 0
Called(op) == intr.answer.op = op

\* C12: for every Interaction, IsSurfaceInteraction() holds if and only if
\* the geometric normal n is not the zero vector, IsMediumInteraction() is
\* its exact negation, so exactly one of the two holds in every state;
\* AsSurface() passes its check only when n is non-zero and AsMedium() only
\* when n is zero.
C12_SurfaceIffNormalNonZero ==
    /\ IsSurfaceInteraction(intr) <=> NonZero(intr.n)
    /\ IsMediumInteraction(intr) <=> ~NonZero(intr.n)
    /\ IsSurfaceInteraction(intr) # IsMediumInteraction(intr)
    /\ Called("IsSurfaceInteraction") => (intr.answer.value <=> NonZero(intr.n))
    /\ Called("IsMediumInteraction") => (intr.answer.value <=> ~NonZero(intr.n))
    /\ Called("AsSurface") =>
        /\ ~intr.answer.fatal <=> NonZero(intr.n)
        /\ intr.at = IF NonZero(intr.n) THEN "used" ELSE "aborted"
    /\ Called("AsMedium") =>
        /\ ~intr.answer.fatal <=> ~NonZero(intr.n)
        /\ intr.at = IF NonZero(intr.n) THEN "aborted" ELSE "used"

\* AsMedium() stopped at its check on an object built by the constructor
\* taking (p, wo, time, medium), after a caller gave it a non-zero normal
C12_Witness ==
    /\ Called("AsMedium") /\ intr.answer.fatal /\ intr.at = "aborted"
    /\ intr.ctor = "p,wo,time,medium"
    /\ intr.n = <<0, 0, -1>>

BothMediumReferences == ~intr.mediumInterface.null /\ intr.medium # NullMedium

\* C13 as stated: in every reachable state of an Interaction (any constructor
\* followed by any sequence of SetIntersectionProperties calls) at most one
\* of mediumInterface and medium is non-null.
C13_AtMostOneMediumReference == ~BothMediumReferences

\* C13 amended: after any constructor followed by at most one
\* SetIntersectionProperties call, at most one of mediumInterface and medium
\* is non-null.
C13_AtMostOneMediumReferenceAfterOneCall ==
    intr.sets <= 1 => ~BothMediumReferences

\* SetIntersectionProperties was called once with a medium transition and a
\* non-null ray medium: only the transition is stored
C13_Witness ==
    /\ Called("SetIntersectionProperties") /\ intr.sets = 1 /\ ~intr.answer.fatal
    /\ intr.answer.primMI = Interface(1, 2)
    /\ intr.answer.rayMedium = 3
    /\ intr.mediumInterface = Interface(1, 2)
    /\ intr.medium = NullMedium

\* C14: SetIntersectionProperties stops at a fatal check exactly when the
\* geometric normal and the shading normal point into opposite hemispheres
\* (Dot(n, shading.n) < 0); when they do not, it completes and binds the
\* material, the area light and the medium information (the transition if
\* the primitive has one, the ray's medium otherwise).
C14_FatalIffOppositeHemispheres ==
    Called("SetIntersectionProperties") =>
        LET a == intr.answer
        IN  /\ a.fatal <=> Dot(a.before.n, a.before.shadingN) < 0
            /\ a.fatal <=> intr.at = "aborted"
            /\ ~a.fatal =>
                /\ intr.material = a.mtl
                /\ intr.areaLight = a.area
                /\ IF ~a.primMI.null /\ a.primMI.inside # a.primMI.outside
                   THEN /\ intr.mediumInterface = a.primMI
                        /\ intr.medium = a.before.medium
                   ELSE /\ intr.medium = a.rayMedium
                        /\ intr.mediumInterface = a.before.mediumInterface

\* SetIntersectionProperties stopped on a surface whose shading normal was
\* set opposite to its geometric normal
C14_Witness ==
    /\ Called("SetIntersectionProperties") /\ intr.answer.fatal
    /\ intr.at = "aborted"
    /\ intr.n = <<0, 0, 1>> /\ intr.shadingN = <<0, 0, -1>>

\* C23 as stated: the geometric normal n is the same before and after
\* a SetShadingGeometry call that returned, for both values of
\* orientationIsAuthoritative.
C23_SetShadingGeometryKeepsNormal ==
    (Called("SetShadingGeometry") /\ intr.at = "built") =>
        intr.n = intr.answer.before.n

\* C23: SetShadingGeometry leaves the geometric normal n as it was when
\* orientationIsAuthoritative is false; when it is true n becomes
\* FaceForward(n, ns), that is, n is negated if Dot(n, ns) < 0 and kept
\* otherwise. The medium references are left alone in both cases. When the
\* call returns, the shading tangents it stored are scaled so that neither
\* has a squared length above 1e16; it does not return when a component of
\* dpdus or dpdvs is infinite.
C23_SetShadingGeometryKeepsNormalUpToSign ==
    Called("SetShadingGeometry") =>
        /\ intr.mediumInterface = intr.answer.before.mediumInterface
        /\ intr.medium = intr.answer.before.medium
        /\ intr.answer.fatal => intr.n = intr.answer.before.n
        /\ (~intr.answer.fatal /\ ~intr.answer.value) => intr.n = intr.answer.before.n
        /\ (~intr.answer.fatal /\ intr.answer.value) =>
            /\ intr.n = (IF Dot(intr.answer.before.n, intr.shadingN) < 0
                         THEN Neg(intr.answer.before.n) ELSE intr.answer.before.n)
            /\ intr.n \in {intr.answer.before.n, Neg(intr.answer.before.n)}
        /\ intr.at = "built" =>
            /\ ~ExceedsLimit(intr.shadingDpdu) /\ ~ExceedsLimit(intr.shadingDpdv)
            /\ ~intr.shadingDpdu.inf /\ ~intr.shadingDpdv.inf
        /\ intr.at = "looping" => NeverInRange(intr.shadingDpdu, intr.shadingDpdv)

\* SetShadingGeometry was called on a surface whose geometric normal points
\* down, with a shading normal pointing up and the shading orientation
\* authoritative, and with a tangent too long: the call returned, n was
\* negated and the tangents were divided by 1e8
C23_Witness ==
    /\ Called("SetShadingGeometry") /\ ~intr.answer.fatal /\ intr.answer.value
    /\ intr.at = "built"
    /\ intr.answer.before.n = <<0, 0, -1>>
    /\ intr.shadingN = <<0, 0, 1>>
    /\ intr.n = <<0, 0, 1>>
    /\ intr.shadingDpdu = Float3(<<2, 0, 0>>, 0)
    /\ intr.shadingDpdv = Float3(<<0, 1, 0>>, -1)

\* the constructors that take an outgoing direction
WithOutgoing == {"pi,n,uv,wo,time", "p,wo,time,medium", "pi,uv,wo,dpdu,dpdv,..."}

\* C24: every Interaction constructed with an outgoing direction stores wo
\* as a vector of unit length, whichever constructor is used: the surface
\* constructor taking (pi, n, uv, wo, time) and the medium-point constructor
\* taking (p, wo, time, medium) that MediumInteraction uses.
C24_OutgoingDirectionNormalized ==
    intr.ctor \in WithOutgoing => LengthSquared(intr.wo) = 1

\* the objects SurfaceInteraction's constructor builds
BuiltSurfaces ==
    {SurfaceInteraction(e, wo, pr[1], pr[2], dn[1], dn[2], f) :
        e \in SurfacePiErrors, wo \in SurfaceOutgoing, pr \in TangentPairs,
        dn \in NormalDerivativePairs, f \in BOOLEAN}
\* a SetIntersectionProperties call on the object passes its check
PassesNormalCheck(o) ==
    \A mtl \in Materials, area \in AreaLights, mi \in InterfacePointers, rm \in RayMedia :
        ~SetIntersectionProperties(o, mtl, area, mi, rm).fatal

\* C28: after SetShadingGeometry returns, the geometric normal and the
\* shading normal lie in the same hemisphere (Dot(n, shading.n) >= 0) for
\* both values of orientationIsAuthoritative, so a SetIntersectionProperties
\* call that follows never fails its check; the same holds directly after
\* the construction of a SurfaceInteraction, where shading.n equals n also
\* when flipNormal is set.
C28_SameHemisphereAfterSetShadingGeometry ==
    /\ (Called("SetShadingGeometry") /\ intr.at = "built") =>
        /\ Dot(intr.n, intr.shadingN) >= 0
        /\ PassesNormalCheck(intr)
    /\ (Called("SetIntersectionProperties") /\ intr.answer.fatal) =>
        Dot(intr.answer.before.n, intr.answer.before.shadingN) < 0
    /\ \A o \in BuiltSurfaces :
        /\ o.shadingN = o.n
        /\ Dot(o.n, o.shadingN) >= 0
        /\ PassesNormalCheck(o)

\* SetShadingGeometry was called with a shading normal opposite to the
\* geometric normal and the shading orientation authoritative: the
\* geometric normal was flipped to its side
C28_Witness ==
    /\ Called("SetShadingGeometry") /\ intr.at = "built" /\ intr.answer.value
    /\ intr.answer.before.n = <<0, 0, 1>>
    /\ intr.shadingN = <<0, 0, -1>>
    /\ intr.n = <<0, 0, -1>>

\* C29: GetMedium(w) returns, when a medium-transition reference is set, the
\* outside medium if Dot(w, n) > 0 and the inside medium otherwise (also
\* when Dot(w, n) = 0), whatever the single medium field holds; when no
\* transition reference is set it returns the single medium field. SpawnRay
\* and both overloads of SpawnRayTo give the ray they return exactly this
\* medium, for the direction of that ray.
C29_GetMediumSelectsBySide ==
    (Called("GetMedium") \/ Called("SpawnRay") \/ Called("SpawnRayTo")
        \/ Called("SpawnRayTo(it)")) =>
        /\ (~intr.mediumInterface.null /\ Dot(intr.answer.w, intr.n) > 0) =>
            intr.answer.medium = intr.mediumInterface.outside
        /\ (~intr.mediumInterface.null /\ Dot(intr.answer.w, intr.n) <= 0) =>
            intr.answer.medium = intr.mediumInterface.inside
        /\ intr.mediumInterface.null => intr.answer.medium = intr.medium

\* SpawnRay was called with a direction lying in the surface on an object
\* that holds a medium transition and a single medium: the ray starts in the
\* inside medium
C29_Witness ==
    /\ Called("SpawnRay")
    /\ intr.mediumInterface = Interface(1, 2)
    /\ intr.medium = 3
    /\ NonZero(intr.n) /\ Dot(intr.answer.w, intr.n) = 0
    /\ intr.answer.medium = 1

----------------------------------------------------------------------------
(* Properties of the random-walk estimator *)

Events(call) == {k \in DOMAIN walk.trace : walk.trace[k].call = call}
EventsAt(call, depth) == {k \in Events(call) : walk.trace[k].depth = depth}
Done == walk.at = "done"
ZeroRadiance == <<>>

\* every emission the scene has shown is zero: that of the infinite lights
\* and that of every surface hit
NonEmissive ==
    /\ \A k \in DOMAIN lights :
        lights[k].type = "Infinite" => walk.lightLe[lights[k].id] = 0
    /\ \A k \in Events("Surface::Le") : walk.trace[k].value = 0
\* every BSDF value the scene has shown is zero
FullyAbsorbing == \A k \in Events("BSDF::f") : walk.trace[k].value = 0

\* C15: in a non-emissive, fully absorbing scene (every surface emission and
\* every infinite-light emission is zero, every BSDF value is zero) the
\* radiance Li returns is zero, for every maxDepth and every sequence of
\* hit/miss outcomes and sampler values.
C15_ZeroRadianceInBlackScene ==
    (Done /\ NonEmissive /\ FullyAbsorbing) => walk.result = ZeroRadiance

\* Li returned zero after a hit on a surface without emission whose BSDF is
\* defined and zero, in a scene with an infinite light that emits nothing
C15_Witness ==
    /\ Done /\ NonEmissive /\ FullyAbsorbing
    /\ walk.maxDepth = 2
    /\ infiniteLights # <<>>
    /\ Events("BSDF::f") # {}
    /\ walk.result = ZeroRadiance

\* C19, the part that holds in every state: at most maxDepth + 1 Intersect
\* queries are made, no activation of LiRandomWalk has a depth greater than
\* maxDepth, and an activation at depth maxDepth asks for no BSDF and calls
\* no further activation.
WalkBounded ==
    /\ Cardinality(Events("Intersect")) <= walk.maxDepth + 1
    /\ \A k \in Events("LiRandomWalk") : walk.trace[k].depth <= walk.maxDepth
    /\ \A k \in DOMAIN walk.stack :
        /\ walk.stack[k].depth = k - 1
        /\ walk.stack[k].depth <= walk.maxDepth
        /\ walk.stack[k].depth = walk.maxDepth =>
            walk.stack[k].at \in {"intersect", "return"}

\* C19: for every maxDepth >= 0 and every scene, the random walk started by
\* Li at depth 0 terminates: it makes at most maxDepth + 1 Intersect queries
\* and never recurses to a depth greater than maxDepth, because the walk
\* returns as soon as depth equals maxDepth.
C19_WalkTerminates == []WalkBounded /\ <>Done

\* Li returned after a walk that used the whole depth budget
C19_Witness ==
    /\ Done
    /\ walk.maxDepth = 2
    /\ Cardinality(Events("Intersect")) = 3
    /\ \E k \in Events("LiRandomWalk") : walk.trace[k].depth = 2

\* the sum of the emissions of the lights of kind Infinite
RECURSIVE InfiniteSum(_)
InfiniteSum(k) ==
    IF k = 0 THEN 0
    ELSE InfiniteSum(k - 1) +
         (IF lights[k].type = "Infinite" THEN walk.lightLe[lights[k].id] ELSE 0)

\* the activations that ended at a miss: those on the stack, and the one
\* whose value Li has returned
MissedAt(depth) ==
    \E k \in EventsAt("Intersect", depth) : walk.trace[k].value = 0

\* C20: when Intersect reports no hit, LiRandomWalk returns exactly the sum
\* of Le over the infiniteLights list (zero when the list is empty): no light
\* outside infiniteLights is asked or contributes, no sampler value is
\* consumed, the walk does not recurse, and the miss is a normal result.
C20_MissReturnsInfiniteLightEmission ==
    /\ \A k \in DOMAIN walk.stack :
        LET f == walk.stack[k]
        IN  MissedAt(f.depth) =>
                /\ f.at = "return" /\ f.why = "miss"
                /\ f.value = Spectrum(InfiniteSum(Len(lights)))
                /\ k = Len(walk.stack)
    /\ \A d \in 0..walk.maxDepth :
        MissedAt(d) =>
            /\ EventsAt("Get2D", d) = {}
            /\ EventsAt("GetBSDF", d) = {}
            /\ EventsAt("SpawnRay", d) = {}
            /\ EventsAt("LiRandomWalk", d + 1) = {}
            /\ {walk.trace[k].arg : k \in EventsAt("Light::Le", d)} =
                   {lights[k].id : k \in {j \in DOMAIN lights : lights[j].type = "Infinite"}}
    /\ (Done /\ MissedAt(0)) => walk.result = Spectrum(InfiniteSum(Len(lights)))

\* the ray of Li missed a scene with an emitting infinite light and an
\* emitting light of another kind: Li returned the infinite light's emission
C20_Witness ==
    /\ Done /\ MissedAt(0)
    /\ Len(lights) = 2 /\ Len(infiniteLights) = 1
    /\ \A k \in DOMAIN lights : walk.lightLe[k] = 1
    /\ walk.result = <<1>>

\* the emission the surface hit at a depth has returned
LeAt(depth) == {walk.trace[k].value : k \in EventsAt("Surface::Le", depth)}
\* the hit at a depth has no BSDF
NoBSDFAt(depth) == \E k \in EventsAt("GetBSDF", depth) : walk.trace[k].value = 0
\* the BSDF value times |cos| of the direction sampled at a depth is zero
FcosZeroAt(depth) ==
    \E i \in EventsAt("BSDF::f", depth), j \in EventsAt("AbsDot", depth) :
        walk.trace[i].value * walk.trace[j].value = 0

\* C21: at a hit, if GetBSDF yields no BSDF, or the BSDF value times |cos|
\* for the sampled direction is zero, LiRandomWalk returns just the surface
\* emission Le of that hit as a normal result: no continuation ray is
\* spawned, no deeper activation is entered and no further Intersect is made.
C21_NoScatteringReturnsEmission ==
    /\ walk.at \in {"ready", "running", "done"}
    /\ \A d \in 0..walk.maxDepth :
        (NoBSDFAt(d) \/ FcosZeroAt(d)) =>
            /\ EventsAt("SpawnRay", d) = {}
            /\ EventsAt("LiRandomWalk", d + 1) = {}
            /\ EventsAt("Intersect", d + 1) = {}
            /\ NoBSDFAt(d) => EventsAt("Get2D", d) = {}
            /\ \A k \in DOMAIN walk.stack :
                walk.stack[k].depth = d =>
                    /\ k = Len(walk.stack)
                    /\ walk.stack[k].at = "return"
                    /\ walk.stack[k].why \in {"no bsdf", "fcos zero"}
                    /\ {walk.stack[k].value} = {Spectrum(le) : le \in LeAt(d)}
            /\ (Done /\ d = 0) => {walk.result} = {Spectrum(le) : le \in LeAt(0)}

\* after one bounce the walk hit an emitting surface whose BSDF is defined
\* and non-zero but whose sampled direction has |cos| zero: the activation
\* returns the emission
C21_Witness ==
    /\ Running("return")
    /\ Top.depth = 1 /\ Top.why = "fcos zero"
    /\ LeAt(1) = {1}
    /\ \E i \in EventsAt("BSDF::f", 1) : walk.trace[i].value = 2
    /\ Top.value = <<1>>

\* C22: at every hit the surface's own emission is evaluated before the
\* depth budget is tested, so a hit at depth = maxDepth still contributes its
\* emission; the BSDF is requested and a sampler value drawn only after the
\* depth test has passed, so at depth = maxDepth neither GetBSDF nor Get2D
\* is called.
C22_EmissionBeforeDepthTest ==
    /\ \A k \in Events("Intersect") :
        walk.trace[k].value = 1 =>
            /\ k + 1 \in EventsAt("Surface::Le", walk.trace[k].depth)
    /\ \A k \in Events("GetBSDF") \cup Events("Get2D") :
        /\ walk.trace[k].depth < walk.maxDepth
        /\ \E j \in EventsAt("Surface::Le", walk.trace[k].depth) : j < k
    /\ EventsAt("GetBSDF", walk.maxDepth) = {}
    /\ EventsAt("Get2D", walk.maxDepth) = {}
    /\ \A k \in DOMAIN walk.stack :
        (walk.stack[k].at = "return" /\ walk.stack[k].why = "depth") =>
            /\ walk.stack[k].depth = walk.maxDepth
            /\ {walk.stack[k].value} = {Spectrum(le) : le \in LeAt(walk.maxDepth)}

\* the walk hit an emitting surface at depth = maxDepth = 2: the activation
\* returns that emission without having asked for a BSDF
C22_Witness ==
    /\ Running("return")
    /\ walk.maxDepth = 2
    /\ Top.depth = 2 /\ Top.why = "depth"
    /\ LeAt(2) = {1}
    /\ Top.value = <<1>>
    /\ EventsAt("GetBSDF", 2) = {}

\* the bounces of the path so far: the continuation rays spawned
Bounces == Cardinality(Events("SpawnRay"))

\* C26 as stated: the number of simultaneously active LiRandomWalk frames
\* is bounded by a constant independent of the number of bounces (the one
\* frame a path without bounces has).
C26_StackDepthIndependentOfBounces == Len(walk.stack) <= 1

\* C26: while a ray is estimated the number of simultaneously active
\* LiRandomWalk frames is at most one more than the number of bounces of the
\* path, exactly that while the path is extended, and never more than
\* maxDepth + 1.
C26_StackDepthIsBouncesPlusOne ==
    /\ Len(walk.stack) <= Bounces + 1
    /\ Len(walk.stack) <= walk.maxDepth + 1
    /\ (walk.at = "running" /\ Top.at # "return") => Len(walk.stack) = Bounces + 1

\* the path has bounced twice and three activations are on the stack
C26_Witness ==
    /\ walk.at = "running"
    /\ Bounces = 2
    /\ Len(walk.stack) = 3
    /\ Top.at = "intersect"

----------------------------------------------------------------------------
(* Properties of the Film *)

\* the calls a worker makes in the run, those made and those to come
Issued(w) == film.done[w] \o film.queue[w]
AllAdded == \A w \in Workers : film.queue[w] = <<>>

RECURSIVE SumSeq(_)
SumSeq(s) == IF s = <<>> THEN 0 ELSE Head(s) + SumSeq(Tail(s))
RECURSIVE FloatSumSeq(_)
\* the floating-point sum of a list of numbers, added from the left
FloatSumSeq(s) ==
    IF s = <<>> THEN 0
    ELSE FloatAdd(FloatSumSeq(SubSeq(s, 1, Len(s) - 1)), s[Len(s)])

\* the weighted radiances of the samples of a pixel, in the order issued
Contributions(p) ==
    [k \in DOMAIN Issued(Owner(p)) |->
        Issued(Owner(p))[k].weight * Issued(Owner(p))[k].L]
Weights(p) == [k \in DOMAIN Issued(Owner(p)) |-> Issued(Owner(p))[k].weight]
Ascending(s) == SortSeq(s, LAMBDA a, b : a < b)

\* the values of the splats addressed to a pixel, by all workers
SplatsTo(p) ==
    SelectSeq(Issued(1) \o Issued(2), LAMBDA op : op.pixel = p)
SplatValues(p) == [k \in DOMAIN SplatsTo(p) |-> SplatsTo(p)[k].L]

\* the error n - 1 floating-point additions can make on an exact total:
\* each at most the total times 2^-FloatPrecision
SummationError(n, total) == IF n = 0 THEN 0 ELSE ((n - 1) * total) \div Big
Within(x, total, n) ==
    /\ x - total <= SummationError(n, total)
    /\ total - x <= SummationError(n, total)

\* C16 as stated: adding a fixed multiset of samples to the same pixel with
\* AddSample in any permutation (and in any interleaving with samples of
\* other pixels) yields the same final pixel value: the value one fixed
\* permutation of the multiset, the ascending one, yields.
C16_AddSampleOrderIndependent ==
    (film.mode = "samples" /\ AllAdded) =>
        \A p \in Pixels :
            /\ film.pixels[p].sum = FloatSumSeq(Ascending(Contributions(p)))
            /\ film.pixels[p].weightSum = FloatSumSeq(Ascending(Weights(p)))

\* C16 amended: adding a fixed multiset of samples to the same pixel with
\* AddSample in any permutation (and in any interleaving with samples of
\* other pixels) yields the same final pixel value up to floating-point
\* summation order error: every permutation yields the exact sum of the
\* weighted radiances within the rounding error of its additions, and the
\* exact sum itself when no addition rounds.
C16_AddSampleOrderIndependentUpToRounding ==
    (film.mode = "samples" /\ AllAdded) =>
        \A p \in Pixels :
            /\ Within(film.pixels[p].sum, SumSeq(Contributions(p)),
                      Len(Contributions(p)))
            /\ film.pixels[p].weightSum = SumSeq(Weights(p))
            /\ film.pixels[p].splat = 0

\* a pixel was given a large sample and then two small ones, which the
\* additions rounded away, while samples were added to the other pixel
C16_Witness ==
    /\ film.mode = "samples" /\ AllAdded
    /\ film.done[1] = <<Sample(1, [L |-> Big, weight |-> 1]),
                        Sample(1, [L |-> 1, weight |-> 1]),
                        Sample(1, [L |-> 1, weight |-> 1])>>
    /\ film.pixels[1].sum = Big
    /\ Len(film.done[2]) = 2
    /\ film.pixels[2].sum = 3

\* C17 as stated: when several workers splat concurrently to arbitrary
\* pixels, including the same pixel, no contribution is lost and the final
\* value of each pixel equals the sum of all splats addressed to it, for
\* every interleaving.
C17_SplatsAllCounted ==
    (film.mode = "splats" /\ AllAdded) =>
        \A p \in Pixels : film.pixels[p].splat = SumSeq(SplatValues(p))

\* C17 amended: when several workers splat concurrently to arbitrary pixels,
\* including the same pixel, no contribution is lost: for every interleaving
\* the final value of each pixel equals the sum of all splats addressed to
\* it up to floating-point summation order error, and exactly when no
\* addition rounds.
C17_SplatsAllCountedUpToRounding ==
    (film.mode = "splats" /\ AllAdded) =>
        \A p \in Pixels :
            /\ Within(film.pixels[p].splat, SumSeq(SplatValues(p)),
                      Len(SplatValues(p)))
            /\ film.pixels[p].sum = 0

\* both workers were inside AddSplat for the same pixel at the same time,
\* each having entered while the accumulator was still zero, and both
\* values were counted
C17_Witness ==
    /\ film.mode = "splats" /\ AllAdded
    /\ film.done[1] = <<Splat(1, 1)>>
    /\ film.done[2] = <<Splat(1, 1)>>
    /\ film.seen[1] = 0 /\ film.seen[2] = 0
    /\ film.pixels[1].splat = 2

----------------------------------------------------------------------------
(* Properties of the render loop *)

SamplerCalls == {"StartPixelSample", "Get1D", "Get2D"}
UsersOf(sampler) ==
    {u.worker : u \in {x \in render.uses : x.sampler = sampler /\ x.call \in SamplerCalls}}

\* C18: no Sampler instance is used by two concurrent execution contexts:
\* each worker holds its own clone of the sampler prototype, obtained once
\* per worker context (not once per sample), and every StartPixelSample,
\* Get1D and Get2D of a worker goes to that worker's clone and never to the
\* prototype or to another worker's clone.
C18_EachWorkerUsesItsOwnClone ==
    /\ \A s \in 0..render.made : Cardinality(UsersOf(s)) <= 1
    /\ UsersOf(Prototype) = {}
    /\ \A w \in Workers :
        /\ render.cloned[w] <= 1
        /\ render.taken[w] > 0 => render.cloned[w] = 1
        /\ render.clone[w] # Prototype
        /\ \A u \in render.uses :
            (u.worker = w /\ u.call \in SamplerCalls) => u.sampler = render.clone[w]
    /\ \A w1 \in Workers, w2 \in Workers :
        (w1 # w2 /\ render.clone[w1] # NoSampler) => render.clone[w1] # render.clone[w2]

\* one worker has evaluated two pixel samples and the other one, each with
\* the one clone it made, drawing values from it
C18_Witness ==
    /\ render.remaining = 0
    /\ render.taken[1] = 2 /\ render.taken[2] = 1
    /\ render.cloned[1] = 1 /\ render.cloned[2] = 1
    /\ Use(1, render.clone[1], "Get2D") \in render.uses
    /\ Use(2, render.clone[2], "Get1D") \in render.uses

----------------------------------------------------------------------------
(* Properties of the cameras *)

ImportanceQueries == {"We", "PDF_We", "SampleWi"}
RayQueries == {"GenerateRay", "GenerateRayDifferential"}

\* C30: the importance queries We, PDF_We and SampleWi are supported only by
\* the perspective camera: on an orthographic, spherical or realistic camera
\* each of them ends in a fatal error and returns no value, whereas
\* GenerateRay and GenerateRayDifferential return on all four cameras.
C30_ImportanceOnlyOnPerspective ==
    \A k \in DOMAIN cam.done :
        LET a == cam.done[k]
        IN  /\ a.op \in ImportanceQueries =>
                (a.fatal <=> cam.camera # "PerspectiveCamera")
            /\ a.op \in RayQueries => ~a.fatal
            /\ a.fatal =>
                /\ a.value = "none"
                /\ k = Len(cam.done)
                /\ cam.at = "aborted"
            /\ ~a.fatal => (k = Len(cam.done) => cam.at = "built")

\* a realistic camera generated a ray and then ended the program in SampleWi
C30_Witness ==
    /\ cam.camera = "RealisticCamera"
    /\ Len(cam.done) = 2
    /\ cam.done[1] = [op |-> "GenerateRay", fatal |-> FALSE, value |-> "ray"]
    /\ cam.done[2].op = "SampleWi" /\ cam.done[2].fatal
    /\ cam.at = "aborted"

====
